---- MODULE Spec2Model ----
(***************************************************************************)
(* Model of the gator feed aggregation engine (main.go: handlerAgg,        *)
(* scrapeFeeds, scrapeFeed; internal/rss/rss.go: FetchFeed; the sqlc       *)
(* queries MarkFeedFetched, GetNextFeedsToFetch and CreatePost).           *)
(*                                                                         *)
(* One coordinating goroutine runs handlerAgg; every tick it calls         *)
(* scrapeFeeds, which starts one scrapeFeed goroutine per selected feed    *)
(* and joins them with a sync.WaitGroup.  Time is a discrete clock; the    *)
(* time.Ticker is a channel of capacity one that is filled every           *)
(* timeBetweenRequests units and drops a firing when it is already full.   *)
(***************************************************************************)
EXTENDS Integers, Sequences, FiniteSets, Bags, TLC

VARIABLES
    pcAgg,                \* position of the handlerAgg goroutine
    timeBetweenRequests,  \* handlerAgg local: the parsed interval
    concurrency,          \* handlerAgg local: the configured concurrency C
    now,                  \* wall clock
    tickerC,              \* number of firings buffered in ticker.C (0 or 1)
    nextTick,             \* time of the ticker's next firing
    feeds,                \* feeds table: feed id -> last_fetched_at
    posts,                \* posts table: a bag of rows
    wg,                   \* sync.WaitGroup counter of the current scrapeFeeds
    workers,              \* scrapeFeed goroutines of the current scrapeFeeds
    selected,             \* scrapeFeeds local: result of GetNextFeedsToFetch
    joinedAt,             \* time at which the previous scrapeFeeds call returned
    phase,                \* 1 when a tick has been started at this clock instant
    users,                \* users table: a bag of rows
    cfgFile,              \* the file ~/.gatorconfig.json
    cli,                  \* the command a gator process ran and what it returned
    feedRows,             \* feeds table as the user commands see it: url, user_id
    feedFollows,          \* feed_follows table: rows of user_id, feed_id
    rssItem,              \* an RSSItem handed to ParsePubDate
    parsed,               \* what ParsePubDate returned for it
    respBody,             \* the response body a feed's server sends, as XML tokens
    bookmarks,            \* bookmarks table: a bag of rows of user_id, post_id
    bookmarksKey,         \* what the migrations declare unique in bookmarks
    procs,                \* gator processes inside a bookmark command
    tui,                  \* the gator tui process: its loop and what it shows
    hist                  \* history recorded by the specification at hand

aggVars == <<pcAgg, timeBetweenRequests, concurrency, now, tickerC, nextTick,
             feeds, posts, wg, workers, selected, joinedAt, phase>>

cliVars == <<users, cfgFile, cli, feedRows, feedFollows>>

rssVars == <<rssItem, parsed, respBody>>

uiVars == <<bookmarks, bookmarksKey, procs, tui>>

vars == <<aggVars, cliVars, rssVars, uiVars, hist>>

-----------------------------------------------------------------------------
(* Bounds of the model *)

NumFeeds == 2
MaxTime == 1
NumUrls == 1
MaxItems == 1

FeedIds == 1..NumFeeds
Urls == 1..NumUrls

(* Program constants *)

DefaultConcurrency == 5

NULL == -1

-----------------------------------------------------------------------------
(* Command-line arguments of "agg": strings are sequences of characters *)

Digits == <<"0", "1", "2", "3", "4", "5", "6", "7", "8", "9">>

IsDigit(ch) == \E d \in 1..10 : Digits[d] = ch

DigitVal(ch) == (CHOOSE d \in 1..10 : Digits[d] = ch) - 1

RECURSIVE DigitsVal(_)
DigitsVal(s) ==
    IF s = <<>> THEN 0
    ELSE 10 * DigitsVal(SubSeq(s, 1, Len(s) - 1)) + DigitVal(s[Len(s)])

AllDigits(s) == Len(s) > 0 /\ \A k \in 1..Len(s) : IsDigit(s[k])

\* A Go int (64 bits) is kept as four 16-bit limbs, least significant first,
\* with its sign apart: the values of interest exceed 32 bits.
Base == 65536

SmallInt(n) == [neg |-> FALSE, mag |-> <<n, 0, 0, 0>>]

\* 10 * x + d on the limbs; ovf when the result exceeds 2^63 - 1
MulAdd10(x, d) ==
    LET c1 == x[1] * 10 + d
        c2 == x[2] * 10 + (c1 \div Base)
        c3 == x[3] * 10 + (c2 \div Base)
        c4 == x[4] * 10 + (c3 \div Base)
    IN  [ovf |-> c4 >= Base \div 2,
         mag |-> <<c1 % Base, c2 % Base, c3 % Base, c4 % Base>>]

RECURSIVE DigitsInt(_)
DigitsInt(s) ==
    IF s = <<>> THEN [ovf |-> FALSE, mag |-> <<0, 0, 0, 0>>]
    ELSE LET r == DigitsInt(SubSeq(s, 1, Len(s) - 1))
             m == MulAdd10(r.mag, DigitVal(s[Len(s)]))
         IN  [ovf |-> r.ovf \/ m.ovf, mag |-> m.mag]

\* strconv.Atoi: optional sign followed by at least one digit; a value out of
\* the int range is an error
Atoi(s) ==
    LET signed == Len(s) > 0 /\ s[1] \in {"+", "-"}
        body == IF signed THEN Tail(s) ELSE s
    IN  IF ~AllDigits(body) \/ DigitsInt(body).ovf
        THEN [err |-> TRUE, val |-> SmallInt(0)]
        ELSE [err |-> FALSE,
              val |-> [neg |-> signed /\ s[1] = "-", mag |-> DigitsInt(body).mag]]

\* c >= 0 on a Go int
IsPositive_OrZero(c) == ~c.neg

\* c > 0 on a Go int
IsPositive(c) == ~c.neg /\ c.mag # <<0, 0, 0, 0>>

\* n <= c for a small natural n and a positive Go int c
LeqInt(n, c) == c.mag[2] # 0 \/ c.mag[3] # 0 \/ c.mag[4] # 0 \/ n <= c.mag[1]

\* the conversion int32(c) of a positive Go int: the low 32 bits, signed
ToInt32(c) ==
    IF c.mag[2] >= Base \div 2
    THEN (c.mag[2] - Base) * Base + c.mag[1]
    ELSE c.mag[2] * Base + c.mag[1]

\* time.ParseDuration restricted to whole seconds: [-+]?digits "s", or "0"
ParseDuration(s) ==
    LET signed == Len(s) > 0 /\ s[1] \in {"+", "-"}
        body == IF signed THEN Tail(s) ELSE s
    IN  IF body = <<"0">> THEN [err |-> FALSE, val |-> 0]
        ELSE IF Len(body) >= 2 /\ body[Len(body)] = "s"
                /\ AllDigits(SubSeq(body, 1, Len(body) - 1))
             THEN LET v == DigitsVal(SubSeq(body, 1, Len(body) - 1))
                  IN  [err |-> FALSE,
                       val |-> IF signed /\ s[1] = "-" THEN 0 - v ELSE v]
             ELSE [err |-> TRUE, val |-> 0]

DurationArgs == { <<"1", "s">>, <<"0", "s">>, <<"-", "5", "s">>, <<"x">> }

ConcurrencyArgs ==
    { <<"1">>, <<"2">>, <<"0">>, <<"-", "1">>, <<"x">>,
      <<"4", "2", "9", "4", "9", "6", "7", "2", "9", "7">> }

AggArgs ==
    {<<>>} \cup { <<d>> : d \in DurationArgs }
           \cup { <<d, c>> : d \in DurationArgs, c \in ConcurrencyArgs }

-----------------------------------------------------------------------------
(* Storage *)

\* ORDER BY last_fetched_at ASC, where Postgres sorts NULL last
SortKey_NullsLast(t) == IF t = NULL THEN 1000 ELSE t

\* ORDER BY last_fetched_at ASC NULLS FIRST
SortKey(t) == t

IsSelection(s, tbl, n) ==
    /\ \A a, b \in 1..Len(s) : a < b => s[a] # s[b]
    /\ Len(s) = (IF n < Cardinality(DOMAIN tbl) THEN n
                 ELSE Cardinality(DOMAIN tbl))
    /\ \A a, b \in 1..Len(s) : a < b => SortKey(tbl[s[a]]) <= SortKey(tbl[s[b]])
    /\ \A a \in 1..Len(s) : \A g \in DOMAIN tbl :
          (\A b \in 1..Len(s) : s[b] # g) => SortKey(tbl[s[a]]) <= SortKey(tbl[g])

SeqsUpTo(S, n) == UNION { [1..k -> S] : k \in 0..n }

Min(a, b) == IF a < b THEN a ELSE b

\* the query without its LIMIT clause
GetNextFeedsToFetch_NoLimit(tbl, n) ==
    { s \in SeqsUpTo(DOMAIN tbl, Cardinality(DOMAIN tbl)) :
        IsSelection(s, tbl, Cardinality(DOMAIN tbl)) }

\* GetNextFeedsToFetch: the possible results for LIMIT n (ties in any order)
GetNextFeedsToFetch(tbl, n) ==
    { s \in SeqsUpTo(DOMAIN tbl, Cardinality(DOMAIN tbl)) : IsSelection(s, tbl, n) }

\* NOW() of the database: the wall clock, refined by the order of two ticks
\* that run within one clock instant (a tick that overran the firing, then
\* the tick started on that firing), which the real clock tells apart
NOW == 2 * now + phase

\* the UPDATE without its WHERE clause
MarkFeedFetched_NoWhere(tbl, id, t) == [g \in DOMAIN tbl |-> t]

\* MarkFeedFetched: SET last_fetched_at = NOW() WHERE id = $1
MarkFeedFetched(tbl, id, t) ==
    [g \in DOMAIN tbl |-> IF g = id THEN t ELSE tbl[g]]

\* the unique constraint posts_url_key
posts_url_key(tbl, url) == \A r \in BagToSet(tbl) : r.Url # url

\* an INSERT that is not checked against the urls already stored
CreatePost_Unchecked(tbl, row) == [err |-> "", tbl |-> tbl (+) SetToBag({row})]

\* an INSERT ... ON CONFLICT (url) DO UPDATE: the new row takes the place of
\* the stored one
CreatePost_Upsert(tbl, row) ==
    [err |-> "",
     tbl |-> SetToBag({ r \in BagToSet(tbl) : r.Url # row.Url } \cup {row})]

\* CreatePost: INSERT INTO posts ... RETURNING *; fails on a duplicate url
CreatePost(tbl, row) ==
    IF posts_url_key(tbl, row.Url)
    THEN [err |-> "", tbl |-> tbl (+) SetToBag({row})]
    ELSE [err |-> "posts_url_key", tbl |-> tbl]

-----------------------------------------------------------------------------
(* The Reader *)

Items == [Link : Urls]

Docs == SeqsUpTo(Items, MaxItems)

-----------------------------------------------------------------------------
\* hist is a history variable: the actions write it and never read what it
\* holds; a specification whose claims need no history leaves it off
NoHist == [on |-> FALSE]

\* nothing recorded yet: the previous tick's selection and marks, the
\* document each worker fetched, the inserts each worker attempted, the
\* posts stored when the tick began, and what the latest ticks dispatched
NewHist(p) ==
    [on |-> TRUE, sel |-> {}, marked |-> {}, docs |-> <<>>, tried |-> <<>>,
     posts0 |-> p, ticks |-> <<>>]

\* the last n elements of a sequence
KeepLast(s, n) == IF Len(s) <= n THEN s ELSE SubSeq(s, Len(s) - n + 1, Len(s))

Record(h) == hist' = IF hist.on THEN h ELSE hist

\* what a step of the aggregation loop leaves alone
AggOnly == UNCHANGED <<cliVars, rssVars, uiVars>>

\* no gator command has run and no item is being parsed
NoCmd == [name |-> "", args |-> <<>>, err |-> ""]

\* ~/.gatorconfig.json holding current_user_name
ConfigOf(userName) == [valid |-> TRUE, CurrentUserName |-> userName]

\* the file after os.Create truncated it and the encoder failed: config.Read
\* cannot decode it
Truncated == [valid |-> FALSE, CurrentUserName |-> ""]

\* no bookmark command and no tui process has run
NoTui ==
    [pc |-> "idle", user |-> "", posts |-> <<>>, shown |-> <<>>,
     input |-> <<>>, eof |-> FALSE, opened |-> NULL]

UiIdle ==
    /\ bookmarks = EmptyBag
    /\ bookmarksKey = "unused"
    /\ procs = EmptyBag
    /\ tui = NoTui

CliIdle ==
    /\ users = EmptyBag
    /\ cfgFile = ConfigOf("")
    /\ cli = NoCmd
    /\ feedRows = <<>>
    /\ feedFollows = {}
    /\ UiIdle

RssIdle == rssItem = <<>> /\ parsed = <<>> /\ respBody = <<>>

\* the state of a process that does not run "agg"
AggIdle ==
    /\ pcAgg = "idle"
    /\ timeBetweenRequests = 0
    /\ concurrency = SmallInt(0)
    /\ now = 0
    /\ tickerC = 0
    /\ nextTick = NULL
    /\ feeds = <<>>
    /\ posts = EmptyBag
    /\ wg = 0
    /\ workers = <<>>
    /\ selected = <<>>
    /\ joinedAt = NULL
    /\ phase = 0

Init ==
    /\ CliIdle
    /\ RssIdle
    /\ hist = NoHist
    /\ phase = 0
    /\ pcAgg = "start"
    /\ timeBetweenRequests = 0
    /\ concurrency = SmallInt(0)
    /\ now = 0
    /\ tickerC = 0
    /\ nextTick = NULL
    /\ feeds \in { [f \in 1..n |-> NULL] : n \in 0..NumFeeds }
    /\ posts = EmptyBag
    /\ wg = 0
    /\ workers = <<>>
    /\ selected = <<>>
    /\ joinedAt = NULL

-----------------------------------------------------------------------------
(* handlerAgg *)

Running == pcAgg \in {"scrape", "wait", "recv"}

\* a loop that waits for the ticker before its first iteration
NewTicker_WaitFirst(d) ==
    IF d <= 0
    THEN /\ pcAgg' = "panicked"
         /\ UNCHANGED <<tickerC, nextTick>>
    ELSE /\ pcAgg' = "recv"
         /\ tickerC' = 0
         /\ nextTick' = now + d

\* time.NewTicker(d) and the first iteration of "for ; ; <-ticker.C"
NewTicker(d) ==
    IF d <= 0
    THEN /\ pcAgg' = "panicked"
         /\ UNCHANGED <<tickerC, nextTick>>
    ELSE /\ pcAgg' = "scrape"
         /\ tickerC' = 0
         /\ nextTick' = now + d

handlerAgg(args) ==
    /\ pcAgg = "start"
    /\ UNCHANGED <<now, feeds, posts, wg, workers, selected, joinedAt, phase>>
    /\ IF Len(args) = 0 \/ ParseDuration(args[1]).err
       THEN /\ pcAgg' = "returned"
            /\ UNCHANGED <<timeBetweenRequests, concurrency, tickerC,
                           nextTick>>
       ELSE LET d == ParseDuration(args[1]).val
                c == IF Len(args) > 1 THEN Atoi(args[2])
                     ELSE [err |-> FALSE, val |-> SmallInt(DefaultConcurrency)]
            IN  IF c.err \/ ~IsPositive(c.val)
                THEN /\ pcAgg' = "returned"
                     /\ UNCHANGED <<timeBetweenRequests, concurrency, tickerC,
                                    nextTick>>
                ELSE /\ timeBetweenRequests' = d
                     /\ concurrency' = c.val
                     /\ NewTicker(d)
    /\ UNCHANGED hist
    /\ AggOnly

\* the runtime timer of the ticker: a non-blocking send on ticker.C
AdvanceTime ==
    /\ Running
    /\ now < MaxTime
    /\ now' = now + 1
    /\ phase' = 0
    /\ IF now + 1 = nextTick
       THEN /\ tickerC' = 1
            /\ nextTick' = nextTick + timeBetweenRequests
       ELSE UNCHANGED <<tickerC, nextTick>>
    /\ UNCHANGED <<pcAgg, timeBetweenRequests, concurrency, feeds, posts, wg,
                   workers, selected, joinedAt>>
    /\ UNCHANGED hist
    /\ AggOnly

\* a receive that leaves the firing in the channel
TickerRecv_Keep ==
    /\ pcAgg = "recv"
    /\ tickerC = 1
    /\ pcAgg' = "scrape"
    /\ phase' = 1
    /\ UNCHANGED <<timeBetweenRequests, concurrency, now, tickerC, nextTick,
                   feeds, posts, wg, workers, selected, joinedAt>>
    /\ UNCHANGED hist
    /\ AggOnly

\* "<-ticker.C" in the for statement
TickerRecv ==
    /\ pcAgg = "recv"
    /\ tickerC = 1
    /\ tickerC' = 0
    /\ pcAgg' = "scrape"
    /\ phase' = 1
    /\ UNCHANGED <<timeBetweenRequests, concurrency, now, nextTick, feeds,
                   posts, wg, workers, selected, joinedAt>>
    /\ UNCHANGED hist
    /\ AggOnly

-----------------------------------------------------------------------------
(* scrapeFeeds *)

NewWorker(f) ==
    [feed |-> f, pc |-> "mark", items |-> <<>>, markedAt |-> NULL, exit |-> ""]

\* every goroutine sees the loop variable's last value
Dispatch_Captured(s) == [k \in 1..Len(s) |-> NewWorker(s[Len(s)])]

\* "for _, feed := range feeds { wg.Add(1); go scrapeFeed(s, feed, &wg) }"
Dispatch(s) == [k \in 1..Len(s) |-> NewWorker(s[k])]

\* a goroutine that has returned is gone; one that has not keeps running
Unfinished(w) == w.pc # "done"

\* the feeds dispatched by each of the latest scrapeFeeds calls, this one
\* included, as long as MarkFeedFetched succeeded for every dispatched feed:
\* a call with a failed MarkFeedFetched starts the record again
TickLog(log) ==
    IF \A k \in DOMAIN workers : workers[k].markedAt # NULL
    THEN KeepLast(Append(log, { selected[k] : k \in DOMAIN selected }),
                  Len(feeds))
    ELSE <<>>

scrapeFeedsReturn ==
    /\ pcAgg' = "recv"
    /\ joinedAt' = now
    /\ workers' = SelectSeq(workers, Unfinished)
    /\ wg' = 0
    /\ selected' = <<>>
    /\ Record([hist EXCEPT
                 !.sel = { selected[k] : k \in DOMAIN selected },
                 !.marked = { workers[k].feed : k \in
                                { j \in DOMAIN workers :
                                    workers[j].markedAt # NULL } },
                 !.ticks = TickLog(hist.ticks)])

\* the Selector's error propagated out of the loop
scrapeFeedsSelectErr_Fatal ==
    /\ pcAgg = "scrape"
    /\ pcAgg' = "returned"
    /\ UNCHANGED <<timeBetweenRequests, concurrency, now, tickerC, nextTick,
                   feeds, posts, wg, workers, selected, joinedAt, phase>>
    /\ UNCHANGED hist
    /\ AggOnly

\* GetNextFeedsToFetch returned an error
scrapeFeedsSelectErr ==
    /\ pcAgg = "scrape"
    /\ scrapeFeedsReturn
    /\ UNCHANGED <<timeBetweenRequests, concurrency, now, tickerC, nextTick,
                   feeds, posts, phase>>
    /\ AggOnly

\* an empty result treated as a fatal error
scrapeFeeds_EmptyFatal ==
    /\ pcAgg = "scrape"
    /\ ToInt32(concurrency) >= 0
    /\ \E s \in GetNextFeedsToFetch(feeds, ToInt32(concurrency)) :
          /\ IF Len(s) = 0
             THEN /\ pcAgg' = "returned"
                  /\ UNCHANGED <<workers, wg, selected, joinedAt, hist>>
             ELSE /\ selected' = s
                  /\ workers' = workers \o Dispatch(s)
                  /\ wg' = Len(s)
                  /\ pcAgg' = "wait"
                  /\ joinedAt' = NULL
                  /\ UNCHANGED hist
    /\ UNCHANGED <<timeBetweenRequests, concurrency, now, tickerC, nextTick,
                   feeds, posts, phase>>
    /\ AggOnly

scrapeFeeds ==
    /\ pcAgg = "scrape"
    /\ ToInt32(concurrency) >= 0
    /\ \E s \in GetNextFeedsToFetch(feeds, ToInt32(concurrency)) :
          /\ IF Len(s) = 0
             THEN scrapeFeedsReturn
             ELSE /\ selected' = s
                  /\ workers' = workers \o Dispatch(s)
                  /\ wg' = Len(s)
                  /\ pcAgg' = "wait"
                  /\ joinedAt' = NULL
                  /\ Record([hist EXCEPT
                               !.docs = [k \in 1..Len(s) |-> <<>>],
                               !.tried = [k \in 1..Len(s) |-> <<>>],
                               !.posts0 = posts])
    /\ UNCHANGED <<timeBetweenRequests, concurrency, now, tickerC, nextTick,
                   feeds, posts, phase>>
    /\ AggOnly

\* scrapeFeeds returning without waiting for the goroutines
WgWait_Missing == TRUE

\* wg.Wait() returns when the counter is zero
WgWait == wg = 0

scrapeFeedsJoin ==
    /\ pcAgg = "wait"
    /\ WgWait
    /\ scrapeFeedsReturn
    /\ UNCHANGED <<timeBetweenRequests, concurrency, now, tickerC, nextTick,
                   feeds, posts, phase>>
    /\ AggOnly

-----------------------------------------------------------------------------
(* scrapeFeed: the goroutine in slot k of the current scrapeFeeds call *)

\* return from scrapeFeed: the deferred wg.Done()
Return(k, how) ==
    /\ workers' = [workers EXCEPT ![k].pc = "done", ![k].exit = how]
    /\ wg' = wg - 1

MarkOK(k) ==
    /\ k \in DOMAIN workers
    /\ workers[k].pc = "mark"
    /\ feeds' = MarkFeedFetched(feeds, workers[k].feed, NOW)
    /\ workers' = [workers EXCEPT ![k].pc = "fetch", ![k].markedAt = NOW]
    /\ UNCHANGED <<pcAgg, timeBetweenRequests, concurrency, now, tickerC,
                   nextTick, posts, wg, selected, joinedAt, phase>>
    /\ UNCHANGED hist
    /\ AggOnly

\* the error branch without its return statement
MarkErr_NoReturn(k) ==
    /\ k \in DOMAIN workers
    /\ workers[k].pc = "mark"
    /\ workers' = [workers EXCEPT ![k].pc = "fetch"]
    /\ UNCHANGED <<pcAgg, timeBetweenRequests, concurrency, now, tickerC,
                   nextTick, feeds, posts, wg, selected, joinedAt, phase>>
    /\ UNCHANGED hist
    /\ AggOnly

\* a failed update that has nevertheless written the row
MarkErr_Written(k) ==
    /\ k \in DOMAIN workers
    /\ workers[k].pc = "mark"
    /\ feeds' = MarkFeedFetched(feeds, workers[k].feed, NOW)
    /\ Return(k, "markerr")
    /\ UNCHANGED <<pcAgg, timeBetweenRequests, concurrency, now, tickerC,
                   nextTick, posts, selected, joinedAt, phase>>
    /\ UNCHANGED hist
    /\ AggOnly

MarkErr(k) ==
    /\ k \in DOMAIN workers
    /\ workers[k].pc = "mark"
    /\ Return(k, "markerr")
    /\ UNCHANGED <<pcAgg, timeBetweenRequests, concurrency, now, tickerC,
                   nextTick, feeds, posts, selected, joinedAt, phase>>
    /\ UNCHANGED hist
    /\ AggOnly

\* rss.FetchFeed returned a document
FetchOK(k, doc) ==
    /\ k \in DOMAIN workers
    /\ workers[k].pc = "fetch"
    /\ IF Len(doc) = 0
       THEN Return(k, "stored")
       ELSE /\ workers' = [workers EXCEPT ![k].pc = "store", ![k].items = doc]
            /\ UNCHANGED wg
    /\ Record([hist EXCEPT !.docs[k] = doc])
    /\ UNCHANGED <<pcAgg, timeBetweenRequests, concurrency, now, tickerC,
                   nextTick, feeds, posts, selected, joinedAt, phase>>
    /\ AggOnly

\* a failed fetch that clears the timestamp again
FetchErr_Rollback(k) ==
    /\ k \in DOMAIN workers
    /\ workers[k].pc = "fetch"
    /\ feeds' = MarkFeedFetched(feeds, workers[k].feed, NULL)
    /\ Return(k, "fetcherr")
    /\ UNCHANGED <<pcAgg, timeBetweenRequests, concurrency, now, tickerC,
                   nextTick, posts, selected, joinedAt, phase>>
    /\ UNCHANGED hist
    /\ AggOnly

\* a failed fetch that starts the run again
FetchErr_Retry(k) ==
    /\ k \in DOMAIN workers
    /\ workers[k].pc = "fetch"
    /\ workers' = [workers EXCEPT ![k].pc = "mark"]
    /\ UNCHANGED <<pcAgg, timeBetweenRequests, concurrency, now, tickerC,
                   nextTick, feeds, posts, wg, selected, joinedAt, phase>>
    /\ UNCHANGED hist
    /\ AggOnly

\* rss.FetchFeed returned an error (request, transport, read or XML error)
FetchErr(k) ==
    /\ k \in DOMAIN workers
    /\ workers[k].pc = "fetch"
    /\ Return(k, "fetcherr")
    /\ UNCHANGED <<pcAgg, timeBetweenRequests, concurrency, now, tickerC,
                   nextTick, feeds, posts, selected, joinedAt, phase>>
    /\ UNCHANGED hist
    /\ AggOnly

\* the server never answers: client.Do has no timeout and the context is
\* context.Background(), so the call does not return
FetchHang(k) ==
    /\ k \in DOMAIN workers
    /\ workers[k].pc = "fetch"
    /\ workers' = [workers EXCEPT ![k].pc = "blocked"]
    /\ UNCHANGED <<pcAgg, timeBetweenRequests, concurrency, now, tickerC,
                   nextTick, feeds, posts, wg, selected, joinedAt, phase>>
    /\ UNCHANGED hist
    /\ AggOnly

\* every error of CreatePost printed
Logged_All(err) == err # ""

\* "Error creating post" is printed unless the message is the one of the
\* unique constraint posts_url_key
Logged(err) == err # "" /\ err # "posts_url_key"

\* one iteration of "for _, item := range rssFeed.Channel.Item"; items holds
\* the items not yet visited
StoreNext(k) ==
    IF Len(workers[k].items) = 1
    THEN /\ workers' = [workers EXCEPT ![k].pc = "done", ![k].exit = "stored",
                                       ![k].items = <<>>]
         /\ wg' = wg - 1
    ELSE /\ workers' = [workers EXCEPT ![k].items = Tail(@)]
         /\ UNCHANGED wg

Store(k) ==
    /\ k \in DOMAIN workers
    /\ workers[k].pc = "store"
    /\ LET item == Head(workers[k].items)
           r == CreatePost(posts, [Url |-> item.Link, FeedID |-> workers[k].feed])
       IN  /\ posts' = r.tbl
           /\ Record([hist EXCEPT
                        !.tried[k] = Append(@, [Link |-> item.Link,
                                                err |-> r.err,
                                                logged |-> Logged(r.err)])])
    /\ StoreNext(k)
    /\ UNCHANGED <<pcAgg, timeBetweenRequests, concurrency, now, tickerC,
                   nextTick, feeds, selected, joinedAt, phase>>
    /\ AggOnly

\* a storage error that ends the worker
StoreErr_Return(k) ==
    /\ k \in DOMAIN workers
    /\ workers[k].pc = "store"
    /\ UNCHANGED posts
    /\ Record([hist EXCEPT
                 !.tried[k] = Append(@, [Link |-> Head(workers[k].items).Link,
                                         err |-> "storage",
                                         logged |-> Logged("storage")])])
    /\ Return(k, "stored")
    /\ UNCHANGED <<pcAgg, timeBetweenRequests, concurrency, now, tickerC,
                   nextTick, feeds, selected, joinedAt, phase>>
    /\ AggOnly

\* CreatePost failed with another storage error: logged, item skipped (a
\* posts_url_key error is not even logged; both leave the loop running)
StoreErr(k) ==
    /\ k \in DOMAIN workers
    /\ workers[k].pc = "store"
    /\ UNCHANGED posts
    /\ Record([hist EXCEPT
                 !.tried[k] = Append(@, [Link |-> Head(workers[k].items).Link,
                                         err |-> "storage",
                                         logged |-> Logged("storage")])])
    /\ StoreNext(k)
    /\ UNCHANGED <<pcAgg, timeBetweenRequests, concurrency, now, tickerC,
                   nextTick, feeds, selected, joinedAt, phase>>
    /\ AggOnly

scrapeFeed(k) ==
    \/ MarkOK(k)
    \/ MarkErr(k)
    \/ \E doc \in Docs : FetchOK(k, doc)
    \/ FetchErr(k)
    \/ FetchHang(k)
    \/ Store(k)
    \/ StoreErr(k)

Slots == 1..NumFeeds

-----------------------------------------------------------------------------
Next ==
    \/ \E args \in AggArgs : handlerAgg(args)
    \/ AdvanceTime
    \/ TickerRecv
    \/ scrapeFeedsSelectErr
    \/ scrapeFeeds
    \/ scrapeFeedsJoin
    \/ \E k \in DOMAIN workers : scrapeFeed(k)

Spec == Init /\ [][Next]_vars

\* the handlerAgg goroutine receives a firing that waits in ticker.C
LoopFairSpec == Spec /\ WF_vars(TickerRecv)

\* the Go scheduler runs every runnable goroutine; the storage layer answers
FairSpec ==
    /\ Spec
    /\ WF_vars(TickerRecv)
    /\ WF_vars(scrapeFeedsSelectErr \/ scrapeFeeds)
    /\ WF_vars(scrapeFeedsJoin)
    /\ \A k \in Slots : WF_vars(scrapeFeed(k))

-----------------------------------------------------------------------------
(* internal/rss: RSSItem.ParsePubDate, with time.Parse for its seven layouts. *)
(* A string is the sequence of its characters.                               *)

Upper ==
    <<"A", "B", "C", "D", "E", "F", "G", "H", "I", "J", "K", "L", "M",
       "N", "O", "P", "Q", "R", "S", "T", "U", "V", "W", "X", "Y", "Z">>

Lower ==
    <<"a", "b", "c", "d", "e", "f", "g", "h", "i", "j", "k", "l", "m",
       "n", "o", "p", "q", "r", "s", "t", "u", "v", "w", "x", "y", "z">>

IsUpper(c) == \E i \in 1..26 : Upper[i] = c

ToLower(c) == IF IsUpper(c) THEN Lower[CHOOSE i \in 1..26 : Upper[i] = c] ELSE c

shortDayNames ==
    << <<"S", "u", "n">>, <<"M", "o", "n">>, <<"T", "u", "e">>, <<"W", "e", "d">>,
       <<"T", "h", "u">>, <<"F", "r", "i">>, <<"S", "a", "t">> >>

shortMonthNames ==
    << <<"J", "a", "n">>, <<"F", "e", "b">>, <<"M", "a", "r">>, <<"A", "p", "r">>,
       <<"M", "a", "y">>, <<"J", "u", "n">>, <<"J", "u", "l">>, <<"A", "u", "g">>,
       <<"S", "e", "p">>, <<"O", "c", "t">>, <<"N", "o", "v">>, <<"D", "e", "c">> >>

Drop(s, n) == SubSeq(s, n + 1, Len(s))

Take(s, n) == SubSeq(s, 1, n)

\* isDigit(s, i): the i-th character exists and is a digit (i counts from 1)
isDigit(s, i) == i <= Len(s) /\ IsDigit(s[i])

\* match: equality of two strings ignoring the case of ASCII letters
match(a, b) ==
    Len(a) = Len(b) /\ \A i \in 1..Len(a) : ToLower(a[i]) = ToLower(b[i])

\* lookup: the index of the name that val starts with, 0 when there is none
lookup(tab, val) ==
    LET hits == { i \in 1..Len(tab) :
                    Len(val) >= Len(tab[i]) /\ match(Take(val, Len(tab[i])), tab[i]) }
    IN  IF hits = {} THEN 0 ELSE CHOOSE i \in hits : \A j \in hits : i <= j

\* getnum: one or two digits; exactly two when fixed
getnum(s, fixed) ==
    IF ~isDigit(s, 1) THEN [err |-> TRUE, n |-> 0, rest |-> s]
    ELSE IF ~isDigit(s, 2)
         THEN IF fixed THEN [err |-> TRUE, n |-> 0, rest |-> s]
              ELSE [err |-> FALSE, n |-> DigitVal(s[1]), rest |-> Drop(s, 1)]
         ELSE [err |-> FALSE, n |-> DigitVal(s[1]) * 10 + DigitVal(s[2]),
               rest |-> Drop(s, 2)]

RECURSIVE cutspace(_)
cutspace(s) == IF Len(s) > 0 /\ s[1] = " " THEN cutspace(Tail(s)) ELSE s

\* the number of leading digits of s
RECURSIVE leadingDigits(_)
leadingDigits(s) == IF isDigit(s, 1) THEN 1 + leadingDigits(Tail(s)) ELSE 0

\* skip for a one-character prefix: a space of the layout stands for any run
\* of spaces of the value, any other character for itself
skip(value, c) ==
    IF c = " "
    THEN IF Len(value) > 0 /\ value[1] # " "
         THEN [err |-> TRUE, rest |-> value]
         ELSE [err |-> FALSE, rest |-> cutspace(value)]
    ELSE IF Len(value) = 0 \/ value[1] # c
         THEN [err |-> TRUE, rest |-> value]
         ELSE [err |-> FALSE, rest |-> Tail(value)]

\* parseSignedOffset: the length of a sign and an hour of at most 23, else 0
parseSignedOffset(value) ==
    IF Len(value) = 0 \/ value[1] \notin {"+", "-"} THEN 0
    ELSE LET n == leadingDigits(Tail(value))
         IN  IF n = 0 \/ n > 2 THEN 0
             ELSE IF DigitsVal(SubSeq(value, 2, n + 1)) > 23 THEN 0 ELSE n + 1

parseGMT(value) == IF Len(value) = 3 THEN 3 ELSE 3 + parseSignedOffset(Drop(value, 3))

RECURSIVE leadingUpper(_)
leadingUpper(s) ==
    IF Len(s) > 0 /\ IsUpper(s[1]) THEN 1 + leadingUpper(Tail(s)) ELSE 0

\* parseTimeZone: the length of a time zone abbreviation at the start of value
parseTimeZone(value) ==
    IF Len(value) < 3 THEN [ok |-> FALSE, n |-> 0]
    ELSE IF Len(value) >= 4 /\ Take(value, 4) \in {<<"C", "h", "S", "T">>, <<"M", "e", "S", "T">>}
    THEN [ok |-> TRUE, n |-> 4]
    ELSE IF Take(value, 3) = <<"G", "M", "T">>
    THEN [ok |-> TRUE, n |-> parseGMT(value)]
    ELSE IF value[1] \in {"+", "-"}
    THEN [ok |-> parseSignedOffset(value) > 0, n |-> parseSignedOffset(value)]
    ELSE LET nUpper == leadingUpper(Take(value, Min(6, Len(value))))
         IN  IF nUpper \in {0, 1, 2, 6} THEN [ok |-> FALSE, n |-> 0]
             ELSE IF nUpper = 5
                  THEN IF value[5] = "T" THEN [ok |-> TRUE, n |-> 5]
                       ELSE [ok |-> FALSE, n |-> 0]
             ELSE IF nUpper = 4
                  THEN IF value[4] = "T" \/ Take(value, 4) = <<"W", "I", "T", "A">>
                       THEN [ok |-> TRUE, n |-> 4]
                       ELSE [ok |-> FALSE, n |-> 0]
             ELSE [ok |-> TRUE, n |-> 3]

isLeap(year) == (year % 4 = 0 /\ year % 100 # 0) \/ year % 400 = 0

daysBefore == <<0, 31, 59, 90, 120, 151, 181, 212, 243, 273, 304, 334, 365>>

daysIn(m, year) ==
    IF m = 2 /\ isLeap(year) THEN 29 ELSE daysBefore[m + 1] - daysBefore[m]

\* time.Date(..., time.UTC) as seconds since 2000-01-01T00:00:00Z, for the
\* years from 2000 on
Date(year, m, day, hour, min, sec) ==
    LET leaps == ((year + 3) \div 4 - 500) - ((year + 99) \div 100 - 20)
                    + ((year + 399) \div 400 - 5)
        d == (year - 2000) * 365 + leaps + daysBefore[m]
                + (IF m > 2 /\ isLeap(year) THEN 1 ELSE 0) + day - 1
    IN  d * 86400 + hour * 3600 + min * 60 + sec

\* the zero time.Time
ZeroTime == [zero |-> TRUE, unix |-> 0, nsec |-> <<>>]

(* The layouts: standard chunks and literal characters between them *)

Std(std) == [std |-> std, c |-> ""]

Lit(c) == [std |-> "lit", c |-> c]

RFC1123Z ==
    << Std("Mon"), Lit(","), Lit(" "), Std("02"), Lit(" "), Std("Jan"),
       Lit(" "), Std("2006"), Lit(" "), Std("15"), Lit(":"), Std("04"),
       Lit(":"), Std("05"), Lit(" "), Std("-0700") >>

RFC1123 ==
    << Std("Mon"), Lit(","), Lit(" "), Std("02"), Lit(" "), Std("Jan"),
       Lit(" "), Std("2006"), Lit(" "), Std("15"), Lit(":"), Std("04"),
       Lit(":"), Std("05"), Lit(" "), Std("MST") >>

formats ==
    << RFC1123Z,
       RFC1123,
       << Std("Mon"), Lit(","), Lit(" "), Std("2"), Lit(" "), Std("Jan"),
          Lit(" "), Std("2006"), Lit(" "), Std("15"), Lit(":"), Std("04"),
          Lit(":"), Std("05"), Lit(" "), Std("-0700") >>,
       << Std("Mon"), Lit(","), Lit(" "), Std("02"), Lit(" "), Std("Jan"),
          Lit(" "), Std("2006"), Lit(" "), Std("15"), Lit(":"), Std("04"),
          Lit(":"), Std("05"), Lit(" "), Std("-0700") >>,
       << Std("2006"), Lit("-"), Std("01"), Lit("-"), Std("02"), Lit("T"),
          Std("15"), Lit(":"), Std("04"), Lit(":"), Std("05"), Std("Z07:00") >>,
       << Std("2006"), Lit("-"), Std("01"), Lit("-"), Std("02"), Lit("T"),
          Std("15"), Lit(":"), Std("04"), Lit(":"), Std("05"), Lit("Z") >>,
       << Std("2006"), Lit("-"), Std("01"), Lit("-"), Std("02"), Lit(" "),
          Std("15"), Lit(":"), Std("04"), Lit(":"), Std("05") >> >>

\* the state of Parse: the rest of the value and the fields read so far
NewParse(value) ==
    [err |-> FALSE, value |-> value, year |-> 0, month |-> 1, day |-> 1,
     hour |-> 0, min |-> 0, sec |-> 0, nsec |-> <<>>, z |-> "",
     zoneOffset |-> -1, zoneName |-> <<>>]

Bad(p) == [p EXCEPT !.err = TRUE]

\* a fraction after the seconds is read although no layout here asks for it
fracSecond(p) ==
    IF Len(p.value) >= 2 /\ p.value[1] \in {".", ","} /\ isDigit(p.value, 2)
    THEN LET n == 1 + leadingDigits(Tail(p.value))
         IN  [p EXCEPT !.nsec = SubSeq(p.value, 2, n), !.value = Drop(p.value, n)]
    ELSE p

\* a numeric zone: sign, two digits of hours, two of minutes, with a colon
\* between them when colon is TRUE
numTZ(p, colon) ==
    LET v == p.value
        w == IF colon THEN 6 ELSE 5
        hr == getnum(SubSeq(v, 2, 3), TRUE)
        mm == getnum(SubSeq(v, w - 1, w), TRUE)
    IN  IF Len(v) < w \/ (colon /\ v[4] # ":") THEN Bad(p)
        ELSE IF hr.err \/ mm.err THEN Bad(p)
        ELSE IF hr.n > 24 \/ mm.n > 60 THEN Bad(p)
        ELSE IF v[1] = "+"
             THEN [p EXCEPT !.zoneOffset = (hr.n * 60 + mm.n) * 60,
                            !.value = Drop(v, w)]
        ELSE IF v[1] = "-"
             THEN [p EXCEPT !.zoneOffset = 0 - (hr.n * 60 + mm.n) * 60,
                            !.value = Drop(v, w)]
        ELSE Bad(p)

\* one chunk of the layout applied to the rest of the value
parseChunk(p, ch) ==
    LET v == p.value
    IN  CASE ch.std = "lit" ->
               IF skip(v, ch.c).err THEN Bad(p)
               ELSE [p EXCEPT !.value = skip(v, ch.c).rest]
          [] ch.std = "Mon" ->
               IF lookup(shortDayNames, v) = 0 THEN Bad(p)
               ELSE [p EXCEPT !.value = Drop(v, 3)]
          [] ch.std = "Jan" ->
               IF lookup(shortMonthNames, v) = 0 THEN Bad(p)
               ELSE [p EXCEPT !.month = lookup(shortMonthNames, v),
                              !.value = Drop(v, 3)]
          [] ch.std = "01" ->
               LET r == getnum(v, TRUE)
               IN  IF r.err \/ r.n <= 0 \/ 12 < r.n THEN Bad(p)
                   ELSE [p EXCEPT !.month = r.n, !.value = r.rest]
          [] ch.std \in {"02", "2"} ->
               LET r == getnum(v, ch.std = "02")
               IN  IF r.err THEN Bad(p)
                   ELSE [p EXCEPT !.day = r.n, !.value = r.rest]
          [] ch.std = "2006" ->
               IF Len(v) < 4 \/ ~AllDigits(Take(v, 4)) THEN Bad(p)
               ELSE [p EXCEPT !.year = DigitsVal(Take(v, 4)), !.value = Drop(v, 4)]
          [] ch.std = "15" ->
               LET r == getnum(v, FALSE)
               IN  IF r.err \/ 24 <= r.n THEN Bad(p)
                   ELSE [p EXCEPT !.hour = r.n, !.value = r.rest]
          [] ch.std = "04" ->
               LET r == getnum(v, TRUE)
               IN  IF r.err \/ 60 <= r.n THEN Bad(p)
                   ELSE [p EXCEPT !.min = r.n, !.value = r.rest]
          [] ch.std = "05" ->
               LET r == getnum(v, TRUE)
               IN  IF r.err \/ 60 <= r.n THEN Bad(p)
                   ELSE fracSecond([p EXCEPT !.sec = r.n, !.value = r.rest])
          [] ch.std = "-0700" -> numTZ(p, FALSE)
          [] ch.std = "Z07:00" ->
               IF Len(v) >= 1 /\ v[1] = "Z"
               THEN [p EXCEPT !.z = "UTC", !.value = Tail(v)]
               ELSE numTZ(p, TRUE)
          [] ch.std = "MST" ->
               IF Len(v) >= 3 /\ Take(v, 3) = <<"U", "T", "C">>
               THEN [p EXCEPT !.z = "UTC", !.value = Drop(v, 3)]
               ELSE IF ~parseTimeZone(v).ok THEN Bad(p)
               ELSE [p EXCEPT !.zoneName = Take(v, parseTimeZone(v).n),
                              !.value = Drop(v, parseTimeZone(v).n)]

RECURSIVE parseLayout(_, _)
parseLayout(p, layout) ==
    IF layout = <<>> \/ p.err THEN p
    ELSE parseLayout(parseChunk(p, Head(layout)), Tail(layout))

\* the zone abbreviations the process's Local location defines
Locals ==
    { [name |-> "UTC", abbr |-> <<"U", "T", "C">>, offset |-> 0],
      [name |-> "America/Phoenix", abbr |-> <<"M", "S", "T">>, offset |-> 0 - 25200] }

\* time.Parse(layout, value) in a process whose Local location is local
Parse(layout, value, local) ==
    LET p == parseLayout(NewParse(value), layout)
    IN  IF p.err \/ p.value # <<>> THEN [err |-> TRUE, t |-> ZeroTime]
        ELSE IF p.day < 1 \/ p.day > daysIn(p.month, p.year)
        THEN [err |-> TRUE, t |-> ZeroTime]
        ELSE LET wall == Date(p.year, p.month, p.day, p.hour, p.min, p.sec)
                 off == IF p.z = "UTC" THEN 0
                        ELSE IF p.zoneOffset # -1 THEN p.zoneOffset
                        ELSE IF p.zoneName # <<>> /\ p.zoneName = local.abbr
                             THEN local.offset
                        ELSE 0
             IN  [err |-> FALSE,
                  t |-> [zero |-> FALSE, unix |-> wall - off, nsec |-> p.nsec]]

\* the loop that gives up with the error of the last layout
RECURSIVE ParsePubDate_Err(_, _, _)
ParsePubDate_Err(it, local, fs) ==
    IF it.PubDate = <<>> THEN [t |-> ZeroTime, err |-> ""]
    ELSE IF fs = <<>> THEN [t |-> ZeroTime, err |-> "parsing time"]
    ELSE IF ~Parse(Head(fs), it.PubDate, local).err
         THEN [t |-> Parse(Head(fs), it.PubDate, local).t, err |-> ""]
         ELSE ParsePubDate_Err(it, local, Tail(fs))

\* RSSItem.ParsePubDate: the layouts fs are those still to be tried
RECURSIVE ParsePubDate(_, _, _)
ParsePubDate(it, local, fs) ==
    IF it.PubDate = <<>> THEN [t |-> ZeroTime, err |-> ""]
    ELSE IF fs = <<>> THEN [t |-> ZeroTime, err |-> ""]
    ELSE IF ~Parse(Head(fs), it.PubDate, local).err
         THEN [t |-> Parse(Head(fs), it.PubDate, local).t, err |-> ""]
         ELSE ParsePubDate(it, local, Tail(fs))

(* The publish dates of the items: what a feed wrote, and for which instant *)

NoText == <<>>

WeekDays == { <<"M", "o", "n", ",", " ">>, NoText }

MonthDays ==
    { [n |-> 2, text |-> <<"0", "2">>], [n |-> 2, text |-> <<"2">>],
      [n |-> 31, text |-> <<"3", "1">>] }

Months == { [n |-> 1, text |-> <<"J", "a", "n">>], [n |-> 2, text |-> <<"F", "e", "b">>] }

\* the zone as written and the offset it stands for, in seconds east of UTC
RfcZones ==
    { [kind |-> "num", offset |-> 0 - 25200, text |-> <<" ", "-", "0", "7", "0", "0">>],
      [kind |-> "num", offset |-> 0, text |-> <<" ", "+", "0", "0", "0", "0">>],
      [kind |-> "num", offset |-> 19800, text |-> <<" ", "+", "0", "5", "3", "0">>],
      [kind |-> "abbr", offset |-> 0 - 25200, text |-> <<" ", "M", "S", "T">>],
      [kind |-> "abbr", offset |-> 0, text |-> <<" ", "U", "T", "C">>],
      [kind |-> "abbr", offset |-> 0, text |-> <<" ", "G", "M", "T">>],
      [kind |-> "colon", offset |-> 25200, text |-> <<" ", "+", "0", "7", ":", "0", "0">>],
      [kind |-> "Z", offset |-> 0, text |-> <<" ", "Z">>],
      [kind |-> "none", offset |-> 0, text |-> NoText] }

IsoZones ==
    { [kind |-> "Z", offset |-> 0, text |-> <<"Z">>],
      [kind |-> "colon", offset |-> 25200, text |-> <<"+", "0", "7", ":", "0", "0">>],
      [kind |-> "colon", offset |-> 0 - 25200, text |-> <<"-", "0", "7", ":", "0", "0">>],
      [kind |-> "num", offset |-> 0 - 25200, text |-> <<"-", "0", "7", "0", "0">>],
      [kind |-> "none", offset |-> 0, text |-> NoText] }

Separators == { "T", " " }

\* what the feed meant: the fields of the date, and how it wrote each
PubDates ==
    { [style |-> "rfc", wd |-> w, day |-> d, month |-> m, zone |-> z, sep |-> " "] :
        w \in WeekDays, d \in MonthDays, m \in Months, z \in RfcZones }
    \cup
    { [style |-> "iso", wd |-> NoText, day |-> d, month |-> m, zone |-> z,
       sep |-> sp] :
        d \in { x \in MonthDays : Len(x.text) = 2 }, m \in { x \in Months : x.n = 1 },
        z \in IsoZones, sp \in Separators }
    \cup
    { [style |-> "text", wd |-> w, day |-> CHOOSE d \in MonthDays : d.n = 31,
       month |-> CHOOSE m \in Months : m.n = 1,
       zone |-> CHOOSE z \in RfcZones : z.kind = "none", sep |-> " "] :
        w \in { NoText, <<"y", "e", "s", "t", "e", "r", "d", "a", "y">> } }

\* the pubDate element as the feed wrote it
Render(f) ==
    CASE f.style = "rfc" ->
           f.wd \o f.day.text \o <<" ">> \o f.month.text \o <<" ", "2", "0", "0", "6", " ">>
               \o <<"1", "5", ":", "0", "4", ":", "0", "5">> \o f.zone.text
      [] f.style = "iso" ->
           <<"2", "0", "0", "6", "-", "0", "1", "-">> \o f.day.text \o <<f.sep>> \o <<"1", "5", ":", "0", "4", ":", "0", "5">> \o f.zone.text
      [] f.style = "text" -> f.wd

DateInit ==
    /\ AggIdle
    /\ CliIdle
    /\ parsed = <<>>
    /\ respBody = <<>>
    /\ \E f \in PubDates :
          /\ rssItem = [PubDate |-> Render(f)]
          /\ hist = [on |-> FALSE, date |-> f]

\* item.ParsePubDate() in a process whose Local location is local
ParsePubDateCall(local) ==
    /\ parsed = <<>>
    /\ parsed' = ParsePubDate(rssItem, local, formats)
    /\ UNCHANGED <<rssItem, respBody, hist, aggVars, cliVars, uiVars>>

DateNext == \E local \in Locals : ParsePubDateCall(local)

DateSpec == DateInit /\ [][DateNext]_vars

-----------------------------------------------------------------------------
(* The user commands.  Every command is one run of the program: main reads *)
(* the config file, runs one handler and exits.                            *)

NumNames == 2

AllNames == <<"alice", "bob", "carol", "dave">>

UserNames == { AllNames[i] : i \in 1..NumNames }

\* os.Args[2:] of a login or register command
UserArgs == { <<>> } \cup { <<n>> : n \in UserNames }

\* the unique constraint users_name_key
users_name_key(tbl, name) == ~BagIn(name, tbl)

\* GetUserByName: SELECT * FROM users WHERE name = $1; dbOk is whether the
\* database answers
GetUserByName(tbl, name, dbOk) ==
    IF ~dbOk THEN [err |-> "connection"]
    ELSE IF ~BagIn(name, tbl) THEN [err |-> "sql: no rows in result set"]
    ELSE [err |-> ""]

\* CreateUser: INSERT INTO users ... RETURNING *
CreateUser(tbl, name, dbOk) ==
    IF ~dbOk THEN [err |-> "connection", tbl |-> tbl]
    ELSE IF ~users_name_key(tbl, name) THEN [err |-> "users_name_key", tbl |-> tbl]
    ELSE [err |-> "", tbl |-> tbl (+) SetToBag({name})]

\* DeleteAllUsers: DELETE FROM users
DeleteAllUsers(tbl, dbOk) ==
    IF ~dbOk THEN [err |-> "connection", tbl |-> tbl]
    ELSE [err |-> "", tbl |-> EmptyBag]

\* how a write of the config file ends: written; the path or os.Create
\* failed and the file is as before; Encode failed after os.Create
\* truncated the file
WriteOutcomes == { "written", "not created", "truncated" }

\* config.write
write(file, cfg, how) ==
    CASE how = "written" -> [err |-> "", file |-> cfg]
      [] how = "not created" -> [err |-> "open", file |-> file]
      [] how = "truncated" -> [err |-> "write", file |-> Truncated]

\* Config.SetUser
SetUser(file, userName, how) == write(file, ConfigOf(userName), how)

\* main: config.Read must succeed before a handler runs
ConfigRead == cfgFile.valid

\* a login that sets the user without looking it up
handlerLogin_NoLookup(args) ==
    /\ ConfigRead
    /\ \E dbOk \in BOOLEAN, how \in WriteOutcomes :
          LET r == IF Len(args) = 0
                   THEN [err |-> "username is required", file |-> cfgFile]
                   ELSE LET w == SetUser(cfgFile, args[1], how)
                        IN  IF w.err # ""
                            THEN [err |-> "couldn't set user", file |-> w.file]
                            ELSE [err |-> "", file |-> w.file]
          IN  /\ cli' = [name |-> "login", args |-> args, err |-> r.err]
              /\ cfgFile' = r.file
    /\ UNCHANGED <<users, feedRows, feedFollows, aggVars, rssVars, uiVars,
                 hist>>

\* gator login <username>
handlerLogin(args) ==
    /\ ConfigRead
    /\ \E dbOk \in BOOLEAN, how \in WriteOutcomes :
          LET r == IF Len(args) = 0
                   THEN [err |-> "username is required", file |-> cfgFile]
                   ELSE IF GetUserByName(users, args[1], dbOk).err # ""
                   THEN [err |-> "user doesn't exist", file |-> cfgFile]
                   ELSE LET w == SetUser(cfgFile, args[1], how)
                        IN  IF w.err # ""
                            THEN [err |-> "couldn't set user", file |-> w.file]
                            ELSE [err |-> "", file |-> w.file]
          IN  /\ cli' = [name |-> "login", args |-> args, err |-> r.err]
              /\ cfgFile' = r.file
    /\ UNCHANGED <<users, feedRows, feedFollows, aggVars, rssVars, uiVars,
                 hist>>

\* a register that sets the current user before it creates the user
handlerRegister_SetFirst(args) ==
    /\ ConfigRead
    /\ \E dbOk \in BOOLEAN, how \in WriteOutcomes :
          LET w == SetUser(cfgFile, args[1], how)
              c == CreateUser(users, args[1], dbOk)
              r == IF Len(args) = 0
                   THEN [err |-> "username is required", tbl |-> users, file |-> cfgFile]
                   ELSE IF w.err # ""
                   THEN [err |-> "couldn't set current user", tbl |-> users,
                         file |-> w.file]
                   ELSE IF c.err = "users_name_key"
                   THEN [err |-> "user already exists", tbl |-> c.tbl, file |-> w.file]
                   ELSE IF c.err # ""
                   THEN [err |-> "couldn't create user", tbl |-> c.tbl, file |-> w.file]
                   ELSE [err |-> "", tbl |-> c.tbl, file |-> w.file]
          IN  /\ cli' = [name |-> "register", args |-> args, err |-> r.err]
              /\ users' = r.tbl
              /\ cfgFile' = r.file
    /\ UNCHANGED <<feedRows, feedFollows, aggVars, rssVars, uiVars,
                 hist>>

\* gator register <username>
handlerRegister(args) ==
    /\ ConfigRead
    /\ \E dbOk \in BOOLEAN, how \in WriteOutcomes :
          LET c == CreateUser(users, args[1], dbOk)
              w == SetUser(cfgFile, args[1], how)
              r == IF Len(args) = 0
                   THEN [err |-> "username is required", tbl |-> users, file |-> cfgFile]
                   ELSE IF c.err = "users_name_key"
                   THEN [err |-> "user already exists", tbl |-> c.tbl, file |-> cfgFile]
                   ELSE IF c.err # ""
                   THEN [err |-> "couldn't create user", tbl |-> c.tbl, file |-> cfgFile]
                   ELSE IF w.err # ""
                   THEN [err |-> "couldn't set current user", tbl |-> c.tbl,
                         file |-> w.file]
                   ELSE [err |-> "", tbl |-> c.tbl, file |-> w.file]
          IN  /\ cli' = [name |-> "register", args |-> args, err |-> r.err]
              /\ users' = r.tbl
              /\ cfgFile' = r.file
    /\ UNCHANGED <<feedRows, feedFollows, aggVars, rssVars, uiVars,
                 hist>>

\* the migrations of sql/schema are not at hand: rows that refer to users may be
\* deleted with them (ON DELETE CASCADE), may make the DELETE fail (a foreign
\* key with no action), or may stay behind (no foreign key)
ForeignKeys == { "cascade", "no action", "none" }

\* some row refers to a user
Referenced == feedRows # <<>> \/ feedFollows # {} \/ bookmarks # EmptyBag

\* gator reset
handlerReset ==
    /\ ConfigRead
    /\ \E dbOk \in BOOLEAN, fk \in ForeignKeys :
          LET d == IF fk = "no action" /\ Referenced
                   THEN [err |-> "foreign key", tbl |-> users]
                   ELSE DeleteAllUsers(users, dbOk)
              cascade == d.err = "" /\ fk = "cascade"
          IN  /\ cli' = [name |-> "reset", args |-> <<>>,
                         err |-> IF d.err # "" THEN "couldn't reset database" ELSE ""]
              /\ users' = d.tbl
              /\ feedRows' = IF cascade THEN <<>> ELSE feedRows
              /\ feedFollows' = IF cascade THEN {} ELSE feedFollows
              /\ bookmarks' = IF cascade THEN EmptyBag ELSE bookmarks
              /\ feeds' = IF cascade THEN <<>> ELSE feeds
              /\ posts' = IF cascade THEN EmptyBag ELSE posts
    /\ UNCHANGED <<pcAgg, timeBetweenRequests, concurrency, now, tickerC, nextTick,
                   wg, workers, selected, joinedAt, phase>>
    /\ UNCHANGED <<cfgFile, rssVars, bookmarksKey, procs, tui, hist>>

\* a fresh installation: no user, a config file naming none
CliInit == AggIdle /\ RssIdle /\ CliIdle /\ hist = NoHist

CliNext ==
    \/ \E args \in UserArgs : handlerLogin(args)
    \/ \E args \in UserArgs : handlerRegister(args)
    \/ handlerReset

CliSpec == CliInit /\ [][CliNext]_vars

-----------------------------------------------------------------------------
(* The feed commands *)

NumFeedUrls == 2

AllFeedUrls == <<"https://a/rss", "https://b/rss", "https://c/rss", "https://d/rss">>

FeedUrls == { AllFeedUrls[i] : i \in 1..NumFeedUrls }

\* os.Args[2:] of an addfeed command
AddFeedArgs == { <<>>, <<"blog">> } \cup { <<"blog", u>> : u \in FeedUrls }

\* the unique constraint on feeds.url
feeds_url_key(rows, url) == \A i \in DOMAIN rows : rows[i].Url # url

\* CreateFeed: INSERT INTO feeds ... RETURNING *; the id of the new row is
\* its place in the table
CreateFeed(rows, url, userID, dbOk) ==
    IF ~dbOk THEN [err |-> "connection", rows |-> rows]
    ELSE IF ~feeds_url_key(rows, url) THEN [err |-> "feeds_url_key", rows |-> rows]
    ELSE [err |-> "", rows |-> Append(rows, [Url |-> url, UserID |-> userID])]

\* CreateFeedFollow: INSERT INTO feed_follows ... RETURNING *
CreateFeedFollow(tbl, userID, feedID, dbOk) ==
    IF ~dbOk THEN [err |-> "connection", tbl |-> tbl]
    ELSE [err |-> "", tbl |-> tbl \cup { [UserID |-> userID, FeedID |-> feedID] }]

\* a wrapper that runs the handler without looking the user up
middlewareLoggedIn_NoLookup(dbOk) == [err |-> ""]

\* middlewareLoggedIn: the wrapped handler runs only when GetUserByName finds
\* the user the config file names; a user's id is its name
middlewareLoggedIn(dbOk) == GetUserByName(users, cfgFile.CurrentUserName, dbOk)

\* gator addfeed <name> <url>, behind middlewareLoggedIn
handlerAddFeed(args) ==
    /\ ConfigRead
    /\ \E dbUser, dbFeed, dbFollow \in BOOLEAN :
          LET user == cfgFile.CurrentUserName
              f == CreateFeed(feedRows, args[2], user, dbFeed)
              ff == CreateFeedFollow(feedFollows, user, Len(f.rows), dbFollow)
              same == [rows |-> feedRows, tbl |-> feedFollows]
              r == IF middlewareLoggedIn(dbUser).err # ""
                   THEN [err |-> "couldn't get user"] @@ same
                   ELSE IF Len(args) < 2
                   THEN [err |-> "name and url are required"] @@ same
                   ELSE IF f.err # ""
                   THEN [err |-> "couldn't create feed"] @@ same
                   ELSE IF ff.err # ""
                   THEN [err |-> "couldn't follow feed", rows |-> f.rows,
                         tbl |-> feedFollows]
                   ELSE [err |-> "", rows |-> f.rows, tbl |-> ff.tbl]
          IN  /\ cli' = [name |-> "addfeed", args |-> args, err |-> r.err]
              /\ feedRows' = r.rows
              /\ feedFollows' = r.tbl
              /\ feeds' = IF Len(r.rows) > Len(feedRows) THEN Append(feeds, NULL)
                          ELSE feeds
    /\ UNCHANGED <<users, cfgFile, rssVars, uiVars, hist>>
    /\ UNCHANGED <<pcAgg, timeBetweenRequests, concurrency, now, tickerC, nextTick,
                   posts, wg, workers, selected, joinedAt, phase>>

\* users register, log in and add feeds
FeedNext ==
    \/ \E args \in UserArgs : handlerLogin(args)
    \/ \E args \in UserArgs : handlerRegister(args)
    \/ \E args \in AddFeedArgs : handlerAddFeed(args)

FeedSpec == CliInit /\ [][FeedNext]_vars

-----------------------------------------------------------------------------
(* gator bookmark, gator unbookmark.  A post's id is its url. *)

MaxProcs == 2

\* os.Args[2:] of a bookmark or unbookmark command; the last url is stored
\* nowhere
BookmarkArgs == { <<>> } \cup { <<u>> : u \in 1..(NumUrls + 1) }

\* what the migrations of sql/schema, which are not at hand, may declare
BookmarkKeys == { "bookmarks_user_id_post_id_key", "none" }

\* GetPostByURL: SELECT * FROM posts WHERE url = $1
GetPostByURL(tbl, url, dbOk) ==
    IF ~dbOk THEN [err |-> "connection", ID |-> NULL]
    ELSE IF posts_url_key(tbl, url)
    THEN [err |-> "sql: no rows in result set", ID |-> NULL]
    ELSE [err |-> "", ID |-> url]

\* IsPostBookmarked: SELECT EXISTS(... WHERE user_id = $1 AND post_id = $2)
IsPostBookmarked(tbl, userID, postID, dbOk) ==
    IF ~dbOk THEN [err |-> "connection", IsBookmarked |-> FALSE]
    ELSE [err |-> "",
          IsBookmarked |-> BagIn([UserID |-> userID, PostID |-> postID], tbl)]

\* CreateBookmark: INSERT INTO bookmarks ... RETURNING *; the id is a fresh
\* uuid, so the row collides with a stored one only on a declared key
CreateBookmark(tbl, row, key, dbOk) ==
    IF ~dbOk THEN [err |-> "connection", tbl |-> tbl]
    ELSE IF key # "none" /\ BagIn(row, tbl) THEN [err |-> key, tbl |-> tbl]
    ELSE [err |-> "", tbl |-> tbl (+) SetToBag({row})]

\* DeleteBookmark: DELETE FROM bookmarks WHERE user_id = $1 AND post_id = $2
DeleteBookmark(tbl, userID, postID, dbOk) ==
    IF ~dbOk THEN [err |-> "connection", tbl |-> tbl]
    ELSE [err |-> "",
          tbl |-> [r \in BagToSet(tbl) \ {[UserID |-> userID, PostID |-> postID]}
                     |-> tbl[r]]]

\* gator bookmark <post_url> up to its IsPostBookmarked query, behind
\* middlewareLoggedIn.  The user and the post it read before do not change
\* while bookmark commands run, so the three reads are one step.
handlerBookmark(args) ==
    /\ ConfigRead
    /\ \E dbUser, dbPost, dbCheck \in BOOLEAN :
          LET user == cfgFile.CurrentUserName
              post == GetPostByURL(posts, args[1], dbPost)
              is == IsPostBookmarked(bookmarks, user, post.ID, dbCheck)
              err == IF middlewareLoggedIn(dbUser).err # ""
                     THEN "couldn't get user"
                     ELSE IF Len(args) = 0 THEN "post URL is required"
                     ELSE IF post.err # "" THEN "couldn't find post"
                     ELSE IF is.err # "" THEN "couldn't check bookmark status"
                     ELSE IF is.IsBookmarked THEN ""
                     ELSE "insert"
          IN  IF err = "insert"
              THEN /\ BagCardinality(procs) < MaxProcs
                   /\ procs' = procs (+) SetToBag({[UserID |-> user,
                                                     PostID |-> post.ID]})
                   /\ UNCHANGED cli
              ELSE /\ cli' = [name |-> "bookmark", args |-> args, err |-> err]
                   /\ UNCHANGED procs
    /\ UNCHANGED <<users, cfgFile, feedRows, feedFollows, bookmarks, bookmarksKey,
                   tui, aggVars, rssVars, hist>>

\* the CreateBookmark call of a process that found the post not bookmarked
handlerBookmarkCreate ==
    /\ \E p \in BagToSet(procs), dbOk \in BOOLEAN :
          LET r == CreateBookmark(bookmarks, p, bookmarksKey, dbOk)
          IN  /\ bookmarks' = r.tbl
              /\ procs' = procs (-) SetToBag({p})
              /\ cli' = [name |-> "bookmark", args |-> <<p.PostID>>,
                         err |-> IF r.err # "" THEN "couldn't create bookmark"
                                 ELSE ""]
    /\ UNCHANGED <<users, cfgFile, feedRows, feedFollows, bookmarksKey, tui,
                   aggVars, rssVars, hist>>

\* gator unbookmark <post_url>, behind middlewareLoggedIn
handlerUnbookmark(args) ==
    /\ ConfigRead
    /\ \E dbUser, dbPost, dbDel \in BOOLEAN :
          LET user == cfgFile.CurrentUserName
              post == GetPostByURL(posts, args[1], dbPost)
              d == DeleteBookmark(bookmarks, user, post.ID, dbDel)
              err == IF middlewareLoggedIn(dbUser).err # ""
                     THEN "couldn't get user"
                     ELSE IF Len(args) = 0 THEN "post URL is required"
                     ELSE IF post.err # "" THEN "couldn't find post"
                     ELSE IF d.err # "" THEN "couldn't remove bookmark"
                     ELSE ""
          IN  /\ cli' = [name |-> "unbookmark", args |-> args, err |-> err]
              /\ bookmarks' = IF err = "" THEN d.tbl ELSE bookmarks
    /\ UNCHANGED <<users, cfgFile, feedRows, feedFollows, bookmarksKey, procs,
                   tui, aggVars, rssVars, hist>>

\* every user is registered, one feed has been fetched and its posts stored
BookmarkInit ==
    /\ pcAgg = "idle"
    /\ timeBetweenRequests = 0
    /\ concurrency = SmallInt(0)
    /\ now = 0
    /\ tickerC = 0
    /\ nextTick = NULL
    /\ feeds = <<0>>
    /\ posts = SetToBag({ [Url |-> u, FeedID |-> 1] : u \in Urls })
    /\ wg = 0
    /\ workers = <<>>
    /\ selected = <<>>
    /\ joinedAt = NULL
    /\ phase = 0
    /\ RssIdle
    /\ hist = NoHist
    /\ users = SetToBag(UserNames)
    /\ \E u \in UserNames : cfgFile = ConfigOf(u)
    /\ cli = NoCmd
    /\ feedRows = << [Url |-> AllFeedUrls[1], UserID |-> AllNames[1]] >>
    /\ feedFollows = { [UserID |-> AllNames[1], FeedID |-> 1] }
    /\ bookmarks = EmptyBag
    /\ bookmarksKey \in BookmarkKeys
    /\ procs = EmptyBag
    /\ tui = NoTui

BookmarkNext ==
    \/ \E args \in UserArgs : handlerLogin(args)
    \/ \E args \in BookmarkArgs : handlerBookmark(args)
    \/ handlerBookmarkCreate
    \/ \E args \in BookmarkArgs : handlerUnbookmark(args)

BookmarkSpec == BookmarkInit /\ [][BookmarkNext]_vars

-----------------------------------------------------------------------------
(* Commands behind middlewareLoggedIn on an installation that is reset *)

\* one feed url and one post url are enough for a command to pass or fail
GuardNext ==
    \/ \E args \in UserArgs : handlerLogin(args)
    \/ \E args \in UserArgs : handlerRegister(args)
    \/ handlerReset
    \/ \E args \in { <<>>, <<"blog", AllFeedUrls[1]>> } : handlerAddFeed(args)
    \/ \E args \in { <<>>, <<1>> } : handlerUnbookmark(args)

GuardSpec == CliInit /\ [][GuardNext]_vars

-----------------------------------------------------------------------------
(* One call of scrapeFeeds on a feeds table left by earlier runs *)

\* PastTime clock instants lie before the call: the timestamps in the table
\* are older than NOW()
PastTime == 1

SelFeeds == 3

PastStamps == 0..(2 * PastTime - 1)

FeedTables(n) == UNION { [1..m -> {NULL} \cup PastStamps] : m \in 0..n }

\* the concurrency values handlerAgg accepts
Concurrencies ==
    { Atoi(c).val : c \in { a \in ConcurrencyArgs :
                              ~Atoi(a).err /\ IsPositive(Atoi(a).val) } }
        \cup { SmallInt(DefaultConcurrency) }

\* the loop of handlerAgg about to call scrapeFeeds
InLoop ==
    /\ CliIdle
    /\ RssIdle
    /\ pcAgg = "scrape"
    /\ timeBetweenRequests = 1
    /\ concurrency \in Concurrencies
    /\ now = PastTime
    /\ phase = 0
    /\ tickerC = 0
    /\ nextTick = PastTime + 1
    /\ wg = 0
    /\ workers = <<>>
    /\ selected = <<>>
    /\ joinedAt = NULL

SelectorInit ==
    /\ InLoop
    /\ hist = NoHist
    /\ feeds \in FeedTables(SelFeeds)
    /\ posts = EmptyBag

SelectorNext ==
    \/ scrapeFeedsSelectErr
    \/ scrapeFeeds

SelectorSpec == SelectorInit /\ [][SelectorNext]_vars

-----------------------------------------------------------------------------
(* The aggregation loop with the history of its ticks recorded *)

RotationInit ==
    /\ CliIdle
    /\ RssIdle
    /\ hist = NewHist(EmptyBag)
    /\ phase = 0
    /\ pcAgg = "start"
    /\ timeBetweenRequests = 0
    /\ concurrency = SmallInt(0)
    /\ now = 0
    /\ tickerC = 0
    /\ nextTick = NULL
    /\ feeds \in { [f \in 1..n |-> NULL] : n \in 0..NumFeeds }
    /\ posts = EmptyBag
    /\ wg = 0
    /\ workers = <<>>
    /\ selected = <<>>
    /\ joinedAt = NULL

\* the feeds answer with documents that hold no item, with errors or not at
\* all: what a feed answers does not reach the feeds table
scrapeFeedNoItems(k) ==
    \/ MarkOK(k)
    \/ MarkErr(k)
    \/ FetchOK(k, <<>>)
    \/ FetchErr(k)
    \/ FetchHang(k)

RotationNext ==
    \/ \E args \in AggArgs : handlerAgg(args)
    \/ AdvanceTime
    \/ TickerRecv
    \/ scrapeFeedsSelectErr
    \/ scrapeFeeds
    \/ scrapeFeedsJoin
    \/ \E k \in DOMAIN workers : scrapeFeedNoItems(k)

RotationSpec == RotationInit /\ [][RotationNext]_vars

-----------------------------------------------------------------------------
(* The agg command with its arguments on record *)

ArgsInit ==
    /\ CliIdle
    /\ RssIdle
    /\ \E args \in AggArgs : hist = [on |-> FALSE, args |-> args]
    /\ phase = 0
    /\ pcAgg = "start"
    /\ timeBetweenRequests = 0
    /\ concurrency = SmallInt(0)
    /\ now = 0
    /\ tickerC = 0
    /\ nextTick = NULL
    /\ feeds \in { [f \in 1..n |-> NULL] : n \in 0..NumFeeds }
    /\ posts = EmptyBag
    /\ wg = 0
    /\ workers = <<>>
    /\ selected = <<>>
    /\ joinedAt = NULL

ArgsNext ==
    \/ handlerAgg(hist.args)
    \/ AdvanceTime
    \/ TickerRecv
    \/ scrapeFeedsSelectErr
    \/ scrapeFeeds
    \/ scrapeFeedsJoin
    \/ \E k \in DOMAIN workers : scrapeFeedNoItems(k)

ArgsSpec == ArgsInit /\ [][ArgsNext]_vars

-----------------------------------------------------------------------------
(* One scrapeFeed goroutine on a posts table left by earlier ticks *)

StoreUrls == 3

StoreItems == 3

StoreDocs == SeqsUpTo([Link : 1..StoreUrls], StoreItems)

\* the worker's feed and another feed
OwnFeed == 1

OtherFeed == 2

\* posts tables that hold each url at most once
PostTables ==
    { SetToBag({ [Url |-> u, FeedID |-> par[u]] : u \in us }) :
        us \in SUBSET (1..StoreUrls),
        par \in [1..StoreUrls -> {OwnFeed, OtherFeed}] }

\* scrapeFeeds has selected OwnFeed with limit 1 and waits for its goroutine
WorkerInit ==
    /\ CliIdle
    /\ RssIdle
    /\ pcAgg = "wait"
    /\ timeBetweenRequests = 1
    /\ concurrency = SmallInt(1)
    /\ now = PastTime
    /\ phase = 0
    /\ tickerC = 0
    /\ nextTick = PastTime + 1
    /\ feeds = [f \in {OwnFeed, OtherFeed} |-> 0]
    /\ posts \in PostTables
    /\ selected = <<OwnFeed>>
    /\ workers = Dispatch(selected)
    /\ wg = 1
    /\ joinedAt = NULL
    /\ hist = [NewHist(posts) EXCEPT !.docs = << <<>> >>, !.tried = << <<>> >>]

\* the goroutine is the first and only one of its scrapeFeeds call
WorkerNext ==
    \/ MarkOK(1)
    \/ MarkErr(1)
    \/ \E doc \in StoreDocs : FetchOK(1, doc)
    \/ FetchErr(1)
    \/ FetchHang(1)
    \/ Store(1)
    \/ StoreErr(1)
    \/ scrapeFeedsJoin

WorkerSpec == WorkerInit /\ [][WorkerNext]_vars

-----------------------------------------------------------------------------
(* internal/rss: FetchFeed, with xml.Unmarshal into RSSFeed.  A body is the *)
(* sequence of its XML tokens.                                               *)

StartElement(n) == [t |-> "start", n |-> n]

EndElement(n) == [t |-> "end", n |-> n]

CharData(v) == [t |-> "text", v |-> v]

\* bytes that are no XML token
Junk == [t |-> "bad"]

\* the Link of an item without a link element
NoLink == 0

\* the decoder has read toks[1..i-1]; stack holds the names of the open
\* elements, outermost first; items are the RSSItem values appended so far.
\* The root element may have any name (RSSFeed has no XMLName); a child
\* "channel" of the root fills Channel, a child "item" of that appends to
\* Channel.Item, a child "link" of that gives Link; every other element is
\* skipped; the decoder stops at the end of the root element
RECURSIVE decode(_, _, _, _)
decode(toks, i, stack, items) ==
    IF i > Len(toks) THEN [err |-> TRUE, items |-> <<>>]
    ELSE LET tok == toks[i]
             inChannel == Len(stack) >= 2 /\ stack[2] = "channel"
         IN  CASE tok.t = "bad" -> [err |-> TRUE, items |-> <<>>]
               [] tok.t = "start" ->
                    decode(toks, i + 1, Append(stack, tok.n),
                           IF inChannel /\ Len(stack) = 2 /\ tok.n = "item"
                           THEN Append(items, [Link |-> NoLink])
                           ELSE items)
               [] tok.t = "text" ->
                    decode(toks, i + 1, stack,
                           IF inChannel /\ Len(stack) = 4 /\ stack[3] = "item"
                              /\ stack[4] = "link"
                           THEN [items EXCEPT ![Len(items)].Link = tok.v]
                           ELSE items)
               [] tok.t = "end" ->
                    IF stack = <<>> \/ stack[Len(stack)] # tok.n
                    THEN [err |-> TRUE, items |-> <<>>]
                    ELSE IF Len(stack) = 1 THEN [err |-> FALSE, items |-> items]
                    ELSE decode(toks, i + 1, SubSeq(stack, 1, Len(stack) - 1), items)

\* xml.Unmarshal(body, &feed): feed.Channel.Item
Unmarshal(body) == decode(body, 1, <<>>, <<>>)

\* the bodies of the model, each with what it is
RECURSIVE ItemTokens(_)
ItemTokens(doc) ==
    IF doc = <<>> THEN <<>>
    ELSE <<StartElement("item"), StartElement("link"), CharData(Head(doc).Link),
           EndElement("link"), EndElement("item")>> \o ItemTokens(Tail(doc))

\* <rss><channel><item><link>..</link></item>...</channel></rss>
RssBody(doc) ==
    <<StartElement("rss"), StartElement("channel")>> \o ItemTokens(doc)
        \o <<EndElement("channel"), EndElement("rss")>>

\* the same items in an Atom document, feed > entry > link
AtomBody(doc) ==
    <<StartElement("feed")>>
        \o [k \in 1..(5 * Len(doc)) |->
              IF ItemTokens(doc)[k].t = "text" THEN ItemTokens(doc)[k]
              ELSE IF ItemTokens(doc)[k].n = "item"
                   THEN [ItemTokens(doc)[k] EXCEPT !.n = "entry"]
                   ELSE ItemTokens(doc)[k]]
        \o <<EndElement("feed")>>

\* the same items in an RSS 1.0 document, where they follow the channel
RdfBody(doc) ==
    <<StartElement("RDF"), StartElement("channel"), EndElement("channel")>>
        \o ItemTokens(doc) \o <<EndElement("RDF")>>

Bodies ==
    { [kind |-> "rss", doc |-> doc, toks |-> RssBody(doc)] : doc \in StoreDocs }
    \cup
    { [kind |-> "cut short", doc |-> doc,
       toks |-> SubSeq(RssBody(doc), 1, Len(RssBody(doc)) - n)] :
        doc \in { d \in StoreDocs : Len(d) <= 1 }, n \in 1..4 }
    \cup
    { [kind |-> "wrong end tag", doc |-> doc,
       toks |-> [RssBody(doc) EXCEPT ![Len(RssBody(doc)) - 1] = EndElement("item")]] :
        doc \in { d \in StoreDocs : Len(d) <= 1 } }
    \cup
    { [kind |-> "junk inside", doc |-> doc,
       toks |-> <<StartElement("rss"), Junk>> \o Tail(RssBody(doc))] :
        doc \in { d \in StoreDocs : Len(d) <= 1 } }
    \cup
    { [kind |-> "junk after", doc |-> doc, toks |-> Append(RssBody(doc), Junk)] :
        doc \in { d \in StoreDocs : Len(d) = 1 } }
    \cup
    { [kind |-> "atom", doc |-> doc, toks |-> AtomBody(doc)] :
        doc \in { d \in StoreDocs : Len(d) = 1 } }
    \cup
    { [kind |-> "rdf", doc |-> doc, toks |-> RdfBody(doc)] :
        doc \in { d \in StoreDocs : Len(d) = 1 } }
    \cup
    { [kind |-> "html", doc |-> <<>>,
       toks |-> <<StartElement("html"), StartElement("body"), CharData(1),
                  EndElement("body"), EndElement("html")>>] }

\* scrapeFeeds has selected OwnFeed and waits for its goroutine; the server
\* of the feed will answer with one of the bodies
ReaderInit ==
    /\ CliIdle
    /\ rssItem = <<>>
    /\ parsed = <<>>
    /\ pcAgg = "wait"
    /\ timeBetweenRequests = 1
    /\ concurrency = SmallInt(1)
    /\ now = PastTime
    /\ phase = 0
    /\ tickerC = 0
    /\ nextTick = PastTime + 1
    /\ feeds = [f \in {OwnFeed, OtherFeed} |-> 0]
    /\ posts \in { p \in PostTables : \A r \in BagToSet(p) : r.FeedID = OtherFeed }
    /\ selected = <<OwnFeed>>
    /\ workers = Dispatch(selected)
    /\ wg = 1
    /\ joinedAt = NULL
    /\ \E b \in Bodies :
          /\ respBody = b.toks
          /\ hist = [NewHist(posts) EXCEPT !.docs = << <<>> >>, !.tried = << <<>> >>]
                       @@ [body |-> [kind |-> b.kind, doc |-> b.doc]]

\* rss.FetchFeed got the response body: xml.Unmarshal decides
FetchBody(k) ==
    IF Unmarshal(respBody).err THEN FetchErr(k)
    ELSE FetchOK(k, Unmarshal(respBody).items)

ReaderNext ==
    \/ MarkOK(1)
    \/ MarkErr(1)
    \/ FetchBody(1)
    \/ Store(1)
    \/ StoreErr(1)
    \/ scrapeFeedsJoin

ReaderSpec == ReaderInit /\ [][ReaderNext]_vars

-----------------------------------------------------------------------------
(* One item of a fetched document on its way into the posts table *)

Descriptions == { <<>>, <<"n", "e", "w", "s">> }

\* sql.NullString{String: s, Valid: s != ""}
NullString(s) == [String |-> s, Valid |-> s # <<>>]

\* Time.IsZero
IsZero(t) == t.zero

\* sql.NullTime{Time: t, Valid: !t.IsZero()}
NullTime(t) == [Time |-> t, Valid |-> ~IsZero(t)]

\* the time values of the model
PubTimes ==
    { ZeroTime } \cup
    { ParsePubDate([PubDate |-> Render(f)], local, formats).t :
        f \in PubDates, local \in Locals }

\* database.CreatePostParams as scrapeFeed fills it in; pubDate is what the
\* expression item.PubDate gives as a time.Time
CreatePostParams(it, feedID, pubDate) ==
    [Url |-> it.Link, FeedID |-> feedID,
     Description |-> NullString(it.Description),
     PublishedAt |-> NullTime(pubDate)]

ItemInit ==
    /\ AggIdle
    /\ CliIdle
    /\ parsed = <<>>
    /\ respBody = <<>>
    /\ \E f \in PubDates, d \in Descriptions :
          /\ rssItem = [Link |-> 1, Description |-> d, PubDate |-> Render(f)]
          /\ hist = [on |-> FALSE, date |-> f]

\* one iteration of the store loop.  scrapeFeed never calls ParsePubDate: it
\* uses the field item.PubDate, declared a string in rss.go, as the time
\* itself, so no time follows from the string; whichever time the field is
\* taken to hold is stored
StoreItem ==
    /\ posts = EmptyBag
    /\ \E pubDate \in PubTimes :
          posts' = CreatePost(posts, CreatePostParams(rssItem, OwnFeed, pubDate)).tbl
    /\ UNCHANGED <<pcAgg, timeBetweenRequests, concurrency, now, tickerC, nextTick,
                   feeds, wg, workers, selected, joinedAt, phase>>
    /\ UNCHANGED <<rssVars, cliVars, uiVars, hist>>

ItemSpec == ItemInit /\ [][StoreItem]_vars

-----------------------------------------------------------------------------
(* gator tui.  tui.posts is the variable posts of handlerTUI, tui.shown the  *)
(* list on the screen, tui.input the line read at the command prompt and    *)
(* tui.opened the url handed to openURL in the latest iteration, if any.     *)

TuiLimit == 10

\* the orders in which a query may return the rows S
Orders(S) ==
    { q \in [1..Cardinality(S) -> S] : \A i, j \in DOMAIN q : i # j => q[i] # q[j] }

\* what a :many query returns: the rows or an error, and with an error
\* whatever slice the generated code hands back
Many(rows, dbOk, limit) ==
    IF dbOk THEN { [err |-> "", rows |-> Take(q, Min(Len(q), limit))] :
                     q \in Orders(rows) }
    ELSE { [err |-> "connection", rows |-> <<>>] }

\* the posts of the feeds the user follows
Followed(userID) ==
    { r \in BagToSet(posts) :
        [UserID |-> userID, FeedID |-> r.FeedID] \in feedFollows }

\* GetPostsForUser: ... WHERE feed_follows.user_id = $1 ORDER BY ... LIMIT $2
GetPostsForUser(userID, limit, dbOk) == Many(Followed(userID), dbOk, limit)

\* SearchPostsForUser: the followed posts whose title, description or feed
\* name holds the query, which is any part of them
SearchPostsForUser(userID, limit, dbOk) ==
    UNION { Many(S, dbOk, limit) : S \in SUBSET Followed(userID) }

\* GetBookmarksForUser: bookmarks INNER JOIN posts ... WHERE user_id = $1
GetBookmarksForUser(userID, limit, dbOk) ==
    Many({ r \in BagToSet(posts) :
             BagIn([UserID |-> userID, PostID |-> r.Url], bookmarks) },
         dbOk, limit)

\* strings.TrimSpace on a line of spaces and other characters
RECURSIVE TrimSpace(_)
TrimSpace(s) ==
    IF s = <<>> THEN s
    ELSE IF Head(s) = " " THEN TrimSpace(Tail(s))
    ELSE IF s[Len(s)] = " " THEN TrimSpace(SubSeq(s, 1, Len(s) - 1))
    ELSE s

\* postNum <= n for a Go int postNum and a length n
IntLeq(c, n) ==
    c.neg \/ (c.mag[2] = 0 /\ c.mag[3] = 0 /\ c.mag[4] = 0 /\ c.mag[1] <= n)

\* postNum >= 1 && postNum <= len(posts)
InRange(postNum, n) == IsPositive(postNum) /\ IntLeq(postNum, n)

\* the lines typed at the prompts
TuiInputs ==
    { <<"q">>, <<"r">>, <<"s">>, <<"b">>, <<>>, <<"x">>, <<" ", "q">>,
      <<"+", "1">>, <<"-", "1">>, <<" ", "2", " ">>, <<"1", "r">>,
      <<"4", "2", "9", "4", "9", "6", "7", "2", "9", "7">> }
      \cup { <<Digits[d + 1]>> : d \in 0..(StoreUrls + 1) }

\* a prompt under the list that was printed before
Show_Stale(t) == [t EXCEPT !.pc = "read"]

\* the top of the for loop: the posts are printed and the prompt is shown
Show(t) == [t EXCEPT !.pc = "read", !.shown = t.posts]

TuiFrame ==
    UNCHANGED <<users, cfgFile, feedRows, feedFollows, bookmarks, bookmarksKey,
                procs, aggVars, rssVars, hist>>

\* gator tui, behind middlewareLoggedIn, up to its first prompt
handlerTUI ==
    /\ tui.pc = "idle"
    /\ ConfigRead
    /\ \E dbUser, dbPosts \in BOOLEAN :
        \E got \in GetPostsForUser(cfgFile.CurrentUserName, TuiLimit, dbPosts) :
          IF middlewareLoggedIn(dbUser).err # ""
          THEN /\ cli' = [name |-> "tui", args |-> <<>>, err |-> "couldn't get user"]
               /\ tui' = [tui EXCEPT !.pc = "returned"]
          ELSE IF got.err # ""
          THEN /\ cli' = [name |-> "tui", args |-> <<>>, err |-> "couldn't get posts"]
               /\ tui' = [tui EXCEPT !.pc = "returned"]
          ELSE IF Len(got.rows) = 0
          THEN /\ cli' = [name |-> "tui", args |-> <<>>, err |-> ""]
               /\ tui' = [tui EXCEPT !.pc = "returned"]
          ELSE /\ tui' = Show([tui EXCEPT !.user = cfgFile.CurrentUserName,
                                          !.posts = got.rows])
               /\ UNCHANGED cli
    /\ TuiFrame

\* one line read at "Enter command: " and the case of the switch it selects
TuiCommand ==
    /\ tui.pc = "read"
    /\ \E line \in TuiInputs, eof, dbOk \in BOOLEAN :
          LET input == TrimSpace(line)
              t == [tui EXCEPT !.input = line, !.eof = eof, !.opened = NULL]
              postNum == Atoi(input)
          IN  IF eof
              THEN /\ tui' = [t EXCEPT !.pc = "returned"]
                   /\ cli' = [name |-> "tui", args |-> <<>>,
                              err |-> "error reading input"]
              ELSE IF input = <<"q">>
              THEN /\ tui' = [t EXCEPT !.pc = "returned"]
                   /\ cli' = [name |-> "tui", args |-> <<>>, err |-> ""]
              ELSE IF input = <<"r">>
              THEN /\ \E got \in GetPostsForUser(tui.user, TuiLimit, dbOk) :
                         tui' = IF got.err # ""
                                THEN [t EXCEPT !.posts = got.rows, !.pc = "pause"]
                                ELSE Show([t EXCEPT !.posts = got.rows])
                   /\ UNCHANGED cli
              ELSE IF input = <<"s">>
              THEN /\ tui' = [t EXCEPT !.pc = "query"]
                   /\ UNCHANGED cli
              ELSE IF input = <<"b">>
              THEN /\ \E got \in GetBookmarksForUser(tui.user, TuiLimit, dbOk) :
                         tui' = IF got.err # ""
                                THEN [t EXCEPT !.pc = "pause"]
                                ELSE Show([t EXCEPT !.posts = got.rows])
                   /\ UNCHANGED cli
              ELSE /\ tui' = IF ~postNum.err /\ InRange(postNum.val, Len(tui.posts))
                             THEN [t EXCEPT !.pc = "pause",
                                            !.opened = tui.posts[postNum.val.mag[1]].Url]
                             ELSE [t EXCEPT !.pc = "pause"]
                   /\ UNCHANGED cli
    /\ TuiFrame

\* the line read at "Enter search query: " and the search
TuiQuery ==
    /\ tui.pc = "query"
    /\ \E line \in { <<>>, <<" ">>, <<"g", "o">> }, eof, dbOk \in BOOLEAN :
          IF eof \/ TrimSpace(line) = <<>>
          THEN tui' = Show(tui)
          ELSE \E got \in SearchPostsForUser(tui.user, TuiLimit, dbOk) :
                  tui' = IF got.err # ""
                         THEN [tui EXCEPT !.pc = "pause"]
                         ELSE Show([tui EXCEPT !.posts = got.rows])
    /\ UNCHANGED cli
    /\ TuiFrame

\* "Press Enter to continue...": a line is read and dropped, errors too
TuiPause ==
    /\ tui.pc = "pause"
    /\ tui' = Show(tui)
    /\ UNCHANGED cli
    /\ TuiFrame

\* one registered user who follows the first feed; the posts of all urls but
\* the last are in that feed; some of the posts are bookmarked
TuiInit ==
    /\ pcAgg = "idle"
    /\ timeBetweenRequests = 0
    /\ concurrency = SmallInt(0)
    /\ now = 0
    /\ tickerC = 0
    /\ nextTick = NULL
    /\ feeds = <<0, 0>>
    /\ posts = SetToBag({ [Url |-> u, FeedID |-> IF u < StoreUrls THEN 1 ELSE 2] :
                            u \in 1..StoreUrls })
    /\ wg = 0
    /\ workers = <<>>
    /\ selected = <<>>
    /\ joinedAt = NULL
    /\ phase = 0
    /\ RssIdle
    /\ hist = NoHist
    /\ users = SetToBag({AllNames[1]})
    /\ \E u \in UserNames : cfgFile = ConfigOf(u)
    /\ cli = NoCmd
    /\ feedRows = << [Url |-> AllFeedUrls[1], UserID |-> AllNames[1]],
                     [Url |-> AllFeedUrls[2], UserID |-> AllNames[1]] >>
    /\ feedFollows = { [UserID |-> AllNames[1], FeedID |-> 1] }
    /\ \E k \in 0..StoreUrls :
          bookmarks = SetToBag({ [UserID |-> AllNames[1], PostID |-> u] : u \in 1..k })
    /\ bookmarksKey \in BookmarkKeys
    /\ procs = EmptyBag
    /\ tui = NoTui

TuiNext ==
    \/ handlerTUI
    \/ TuiCommand
    \/ TuiQuery
    \/ TuiPause

TuiSpec == TuiInit /\ [][TuiNext]_vars

-----------------------------------------------------------------------------
(* Properties *)

InFlight == { k \in DOMAIN workers : workers[k].pc # "done" }

Fetched(w) ==
    w.pc \in {"blocked", "store"} \/ w.exit \in {"fetcherr", "stored"}

\* C1: no two stored posts share a url, whatever the ticks and the
\* interleaving of the workers' inserts
C1_UniqueUrl ==
    \A r, q \in BagToSet(posts) :
        r.Url = q.Url => (r = q /\ CopiesIn(r, posts) = 1)

\* two workers of one tick have fetched the same link: one has stored its
\* post, the other is at the insert of its item with the stored url
C1_Witness ==
    \E k, j \in DOMAIN workers : \E r \in BagToSet(posts) :
        /\ k # j
        /\ r.FeedID = workers[j].feed
        /\ workers[k].pc = "store"
        /\ Head(workers[k].items).Link = r.Url

\* C2: the workers dispatched in a tick are as many as the feeds the
\* Selector returned, and never more than the configured concurrency
C2_DispatchBound ==
    pcAgg = "wait" =>
        /\ Len(workers) = Len(selected)
        /\ LeqInt(Len(workers), concurrency)

\* a tick in which the limit left a feed out
C2_Witness ==
    /\ pcAgg = "wait"
    /\ Len(workers) >= 1
    /\ Len(workers) < Cardinality(DOMAIN feeds)

\* C3: outside scrapeFeeds' wait no worker exists; during it the workers
\* are those of this tick, the WaitGroup counts the unfinished ones on every
\* exit path, and at most C are in flight
C3_JoinBarrier ==
    /\ pcAgg # "wait" => workers = <<>>
    /\ pcAgg = "wait" =>
          /\ wg = Cardinality(InFlight)
          /\ Len(workers) = Len(selected)
          /\ \A k \in DOMAIN workers : workers[k].feed = selected[k]
          /\ LeqInt(Cardinality(InFlight), concurrency)

\* a tick whose workers stored posts has ended and the loop waits again
C3_Witness ==
    /\ pcAgg = "recv"
    /\ joinedAt # NULL
    /\ posts # EmptyBag
    /\ workers = <<>>

\* C4: the feeds of one tick are pairwise distinct and no two workers
\* operate on the same feed
C4_DistinctFeeds ==
    /\ \A a, b \in DOMAIN selected : a # b => selected[a] # selected[b]
    /\ \A k, j \in DOMAIN workers : k # j => workers[k].feed # workers[j].feed

\* two workers are in flight at once
C4_Witness ==
    \E k, j \in InFlight : k # j /\ workers[k].pc = "fetch" /\ workers[j].pc = "store"

\* C5: a worker that is fetching or has fetched its feed has marked it
\* successfully before, in the same run
C5_MarkBeforeFetch ==
    \A k \in DOMAIN workers :
        (workers[k].pc = "fetch" \/ Fetched(workers[k])) =>
            /\ workers[k].markedAt # NULL
            /\ feeds[workers[k].feed] # NULL

\* a worker has fetched a document
C5_Witness ==
    \E k \in DOMAIN workers : workers[k].pc = "store" /\ workers[k].markedAt # NULL

\* C6: after a successful mark at t and a failed fetch, the feed's
\* last_fetched_at is t
C6_FailedFetchKeepsMark ==
    \A k \in DOMAIN workers :
        workers[k].exit = "fetcherr" => feeds[workers[k].feed] = workers[k].markedAt

\* a worker returned on a fetch error, later than its mark
C6_Witness ==
    \E k \in DOMAIN workers :
        /\ workers[k].exit = "fetcherr"
        /\ workers[k].markedAt # NULL
        /\ NOW > workers[k].markedAt

\* C7: a failed mark ends the worker at once, leaving the feeds, the posts,
\* the WaitGroup's other workers untouched; the worker does nothing afterwards
C7_MarkFailureAborts ==
    [][\A k \in DOMAIN workers :
          /\ (workers[k].pc = "mark" /\ k \in DOMAIN workers'
                /\ workers'[k].exit = "markerr") =>
                /\ workers'[k].pc = "done"
                /\ workers'[k].markedAt = NULL
                /\ feeds' = feeds
                /\ posts' = posts
                /\ \A j \in DOMAIN workers : j # k => workers'[j] = workers[j]
          /\ (workers[k].exit = "markerr" /\ pcAgg' = "wait") =>
                /\ workers'[k] = workers[k]
                /\ feeds'[workers[k].feed] = feeds[workers[k].feed]
      ]_vars

\* one worker returned on a mark error with its feed still never fetched,
\* another one of the same tick stored its post
C7_Witness ==
    \E k, j \in DOMAIN workers :
        /\ workers[k].exit = "markerr"
        /\ feeds[workers[k].feed] = NULL
        /\ workers[j].exit = "stored"
        /\ \E r \in BagToSet(posts) : r.FeedID = workers[j].feed

C9_LoopNeverEnds ==
    /\ [][Running => Running']_vars
    /\ ((pcAgg = "recv" /\ tickerC = 1) ~> (pcAgg = "scrape"))

\* a tick starts after a tick in which no feed could be marked
C9_Witness ==
    /\ pcAgg = "scrape"
    /\ joinedAt # NULL
    /\ DOMAIN feeds # {}
    /\ \A f \in DOMAIN feeds : feeds[f] = NULL

Range(s) == { s[k] : k \in DOMAIN s }

\* feed timestamp a is staler than b: never fetched, or fetched earlier
Staler(a, b) == (a = NULL /\ b # NULL) \/ (a # NULL /\ b # NULL /\ a < b)

\* C11: the Selector called with limit L returns min(L, number of feeds)
\* distinct feeds, never-fetched first and then oldest first, and no feed it
\* leaves out is staler than one it returns; scrapeFeeds dispatches exactly
\* these; of [A never fetched, B fetched long ago, C fetched recently] with
\* limit 2 it dispatches A and B
C11_StalestFirst ==
    pcAgg = "wait" =>
        /\ Len(selected) = Min(ToInt32(concurrency), Len(feeds))
        /\ Cardinality(Range(selected)) = Len(selected)
        /\ \A a, b \in DOMAIN selected :
              a < b => ~Staler(feeds[selected[b]], feeds[selected[a]])
        /\ \A g \in DOMAIN feeds \ Range(selected) : \A f \in Range(selected) :
              ~Staler(feeds[g], feeds[f])
        /\ { workers[k].feed : k \in DOMAIN workers } = Range(selected)
        /\ (feeds = <<NULL, 0, 1>> /\ ToInt32(concurrency) = 2) =>
              Range(selected) = {1, 2}

\* the scenario: A never fetched, B fetched long ago, C fetched recently,
\* limit 2, and the workers are those of A and B
C11_Witness ==
    /\ pcAgg = "wait"
    /\ feeds = <<NULL, 0, 1>>
    /\ ToInt32(concurrency) = 2
    /\ { workers[k].feed : k \in DOMAIN workers } = {1, 2}

Pos(s, f) == CHOOSE k \in DOMAIN s : s[k] = f

Links(doc) == { doc[i].Link : i \in DOMAIN doc }

StoredUrls(tbl) == { r.Url : r \in BagToSet(tbl) }

\* C13: a worker that stored a document without any other storage error has
\* added exactly one post, of its own feed, for each distinct url of the
\* document that was not stored before, and none for the stored ones (three
\* items, one stored: two new posts); no duplicate was reported as an error,
\* and the loop goes on
C13_NewPostsOnly ==
    \A k \in DOMAIN workers :
        (/\ workers[k].exit = "stored"
         /\ \A i \in DOMAIN hist.tried[k] : hist.tried[k][i].err # "storage") =>
            LET doc == hist.docs[k]
                new == Links(doc) \ StoredUrls(hist.posts0)
            IN  /\ posts = hist.posts0 (+)
                       SetToBag({ [Url |-> u, FeedID |-> workers[k].feed] :
                                    u \in new })
                /\ BagCardinality(posts) =
                       BagCardinality(hist.posts0) + Cardinality(new)
                /\ \A i \in DOMAIN hist.tried[k] : ~hist.tried[k][i].logged
                /\ Running

\* three items with three urls, one of them stored before by another feed:
\* the worker is done and two posts are new
C13_Witness ==
    \E k \in DOMAIN workers :
        /\ workers[k].exit = "stored"
        /\ Len(hist.docs[k]) = 3
        /\ Cardinality(Links(hist.docs[k])) = 3
        /\ Cardinality(Links(hist.docs[k]) \cap StoredUrls(hist.posts0)) = 1
        /\ \E r \in BagToSet(hist.posts0) :
              r.Url \in Links(hist.docs[k]) /\ r.FeedID # workers[k].feed
        /\ BagCardinality(posts) = BagCardinality(hist.posts0) + 2
        /\ \A i \in DOMAIN hist.tried[k] : hist.tried[k][i].err # "storage"

\* C14: the inserts a worker has attempted are the items of its document, in
\* document order, one attempt each; whatever an insert returned, the items
\* after it are still to come or have been attempted, and a worker that left
\* the store loop has attempted every item
C14_EveryItemTried ==
    \A k \in DOMAIN workers :
        LET doc == hist.docs[k]
            tr == hist.tried[k]
        IN  /\ Len(tr) <= Len(doc)
            /\ \A i \in DOMAIN tr : tr[i].Link = doc[i].Link
            /\ workers[k].pc = "store" =>
                  /\ Len(tr) < Len(doc)
                  /\ workers[k].items = SubSeq(doc, Len(tr) + 1, Len(doc))
            /\ workers[k].exit = "stored" => Len(tr) = Len(doc)
            /\ workers[k].pc \in {"mark", "fetch", "blocked"} => tr = <<>>
            /\ workers[k].exit \in {"markerr", "fetcherr"} => tr = <<>>

\* the first insert failed on a storage error, the second on the unique
\* constraint, and the third item was inserted all the same
C14_Witness ==
    \E k \in DOMAIN workers :
        /\ workers[k].exit = "stored"
        /\ Len(hist.tried[k]) = 3
        /\ hist.tried[k][1].err = "storage"
        /\ hist.tried[k][2].err = "posts_url_key"
        /\ hist.tried[k][3].err = ""
        /\ \E r \in BagToSet(posts) :
              r.Url = hist.tried[k][3].Link /\ r \notin BagToSet(hist.posts0)

\* C15: no step lowers a feed's last_fetched_at or sets it back to NULL,
\* and no step removes a feed
C15_MonotoneStamp ==
    [][\A f \in DOMAIN feeds :
          /\ f \in DOMAIN feeds'
          /\ feeds[f] # NULL => (feeds'[f] # NULL /\ feeds'[f] >= feeds[f])
      ]_vars

\* a feed marked in the previous tick has been marked again in this tick,
\* later than any mark of the previous tick
C15_Witness ==
    \E k \in DOMAIN workers :
        /\ workers[k].feed \in hist.marked
        /\ workers[k].markedAt # NULL
        /\ feeds[workers[k].feed] = workers[k].markedAt
        /\ workers[k].markedAt >= 2

\* C16 as stated: a tick starts only out of the wait for the ticker and
\* only by consuming a firing
C16_TimerOnly ==
    [][(pcAgg # "scrape" /\ pcAgg' = "scrape") =>
          (pcAgg = "recv" /\ tickerC = 1 /\ tickerC' = 0)]_vars

\* C16 amended: the first tick starts at once when handlerAgg enters its
\* loop, with no firing of the ticker; every later tick starts out of the
\* wait for the ticker by consuming one firing; feeds are selected and
\* workers dispatched only in a tick so started
C16_FirstTickAtOnce ==
    [][/\ (pcAgg = "start" /\ pcAgg' \in {"scrape", "wait", "recv"}) =>
             (pcAgg' = "scrape" /\ tickerC' = 0 /\ now' = now)
       /\ (pcAgg # "scrape" /\ pcAgg' = "scrape" /\ pcAgg # "start") =>
             (pcAgg = "recv" /\ tickerC = 1 /\ tickerC' = 0)
       /\ (selected' # selected /\ selected' # <<>>) => pcAgg = "scrape"
       /\ (Len(workers') > Len(workers)) => pcAgg = "scrape"
      ]_vars

\* the first tick marked a feed before the ticker had fired, and a later
\* tick, started on a firing, has dispatched its workers
C16_Witness ==
    /\ pcAgg = "wait"
    /\ phase = 1
    /\ tickerC = 0
    /\ \E f \in DOMAIN feeds : feeds[f] = 0

\* C17: when the Selector returns no feed, scrapeFeeds starts no worker,
\* leaves the feeds and the posts as they are and returns to the loop,
\* which waits for the next firing of the ticker
C17_EmptySelection ==
    [][(/\ pcAgg = "scrape"
        /\ ToInt32(concurrency) >= 0
        /\ <<>> \in GetNextFeedsToFetch(feeds, ToInt32(concurrency))
        /\ pcAgg' # pcAgg) =>
          /\ pcAgg' = "recv"
          /\ workers' = <<>>
          /\ wg' = 0
          /\ feeds' = feeds
          /\ posts' = posts
      ]_vars

\* a tick has started after a tick in which no feed existed
C17_Witness ==
    /\ pcAgg = "scrape"
    /\ Len(feeds) = 0
    /\ joinedAt # NULL
    /\ phase = 1

\* the publish date is written in one of the seven layouts: the RFC 1123
\* forms want the weekday, a day that exists, and a numeric zone, or a zone
\* abbreviation after a two-digit day; the ISO forms want "T" and a "Z" or
\* hh:mm zone, or a space and no zone
KnownFormat(f) ==
    \/ /\ f.style = "rfc"
       /\ f.wd # NoText
       /\ f.day.n <= (IF f.month.n = 2 THEN 28 ELSE 31)
       /\ \/ f.zone.kind = "num"
          \/ f.zone.kind = "abbr" /\ Len(f.day.text) = 2
    \/ /\ f.style = "iso"
       /\ \/ f.sep = "T" /\ f.zone.kind \in {"Z", "colon"}
          \/ f.sep = " " /\ f.zone.kind = "none"

\* the date and time of day the feed wrote, read as UTC
WallTime(f) == Date(2006, f.month.n, f.day.n, 15, 4, 5)

FirstAccepting(value, local) ==
    CHOOSE i \in 1..Len(formats) :
        /\ ~Parse(formats[i], value, local).err
        /\ \A j \in 1..(i - 1) : Parse(formats[j], value, local).err

RFC1123ZExample ==
    <<"M", "o", "n", ",", " ", "0", "2", " ",
      "J", "a", "n", " ", "2", "0", "0", "6", " ",
      "1", "5", ":", "0", "4", ":", "0", "5", " ", "-", "0", "7", "0", "0">>

\* C18: ParsePubDate returns no error; for an empty string and for a string
\* in none of the layouts it returns the zero time; for a string in one of
\* the layouts it returns what the first layout that accepts it parses: the
\* instant the string encodes when the zone is numeric, "Z" or absent (UTC),
\* and for a zone abbreviation the instant under the offset the process's
\* location gives the abbreviation, or under offset zero when it gives none;
\* "Mon, 02 Jan 2006 15:04:05 -0700" is 22:04:05 UTC of that day
C18_ParsePubDate ==
    parsed # <<>> =>
        LET f == hist.date
        IN  /\ parsed.err = ""
            /\ rssItem.PubDate = <<>> => parsed.t = ZeroTime
            /\ ~KnownFormat(f) => parsed.t = ZeroTime
            /\ KnownFormat(f) =>
                  /\ ~parsed.t.zero
                  /\ f.zone.kind # "abbr" =>
                        parsed.t.unix = WallTime(f) - f.zone.offset
                  /\ f.zone.kind = "abbr" =>
                        parsed.t.unix \in {WallTime(f) - f.zone.offset, WallTime(f)}
                  /\ \E local \in Locals :
                        parsed.t = Parse(formats[FirstAccepting(rssItem.PubDate, local)],
                                         rssItem.PubDate, local).t
            /\ rssItem.PubDate = RFC1123ZExample =>
                  parsed.t.unix = Date(2006, 1, 2, 22, 4, 5)

\* the example string has been parsed to its instant
C18_Witness ==
    /\ rssItem = [PubDate |-> RFC1123ZExample]
    /\ parsed # <<>>
    /\ parsed.err = ""
    /\ parsed.t = [zero |-> FALSE, unix |-> Date(2006, 1, 2, 22, 4, 5), nsec |-> <<>>]

\* C19: a login returns no error only for a user stored in the users table,
\* and the config file then names that user; with no argument or with a
\* name that is not stored it returns an error and leaves the config file
\* as it was; it never changes the users table
C19_Login ==
    [][cli'.name = "login" =>
          LET args == cli'.args
          IN  /\ cli'.err = "" =>
                    /\ Len(args) > 0
                    /\ BagIn(args[1], users)
                    /\ cfgFile' = ConfigOf(args[1])
              /\ (Len(args) = 0 \/ ~BagIn(args[1], users)) =>
                    /\ cli'.err # ""
                    /\ cfgFile' = cfgFile
              /\ users' = users]_vars

\* a login for a name that is not stored has failed while the config file
\* names another user, who is stored
C19_Witness ==
    /\ cli.name = "login"
    /\ cli.err = "user doesn't exist"
    /\ ~BagIn(cli.args[1], users)
    /\ cfgFile.valid
    /\ cfgFile.CurrentUserName # cli.args[1]
    /\ BagIn(cfgFile.CurrentUserName, users)

\* C20: a register of a new name fails only when the storage or the config
\* write fails; when it returns no error the name was new, the users table
\* has gained that one user, and the config file names it; a register of a
\* stored name returns an error and leaves the users table and the config
\* file as they were; no name is ever stored twice
C20_Register ==
    [][cli'.name = "register" /\ Len(cli'.args) > 0 =>
          LET n == cli'.args[1]
          IN  /\ ~BagIn(n, users) =>
                    cli'.err \in {"", "couldn't create user", "couldn't set current user"}
              /\ cli'.err = "" =>
                    /\ ~BagIn(n, users)
                    /\ users' = users (+) SetToBag({n})
                    /\ cfgFile' = ConfigOf(n)
              /\ BagIn(n, users) =>
                    /\ cli'.err # ""
                    /\ users' = users
                    /\ cfgFile' = cfgFile
              /\ \A m \in UserNames : CopiesIn(m, users') <= 1]_vars

\* a register of a stored name has failed while the config file names
\* another user
C20_Witness ==
    /\ cli.name = "register"
    /\ cli.err = "user already exists"
    /\ CopiesIn(cli.args[1], users) = 1
    /\ cfgFile.valid
    /\ cfgFile.CurrentUserName \in UserNames \ {cli.args[1]}

\* C21: after an addfeed has returned, either it returned no error and the
\* feeds table has gained the feed and the feed_follows table the follow of
\* the feed by its creator, or it returned an error and neither table has
\* changed
C21_AddFeedBothOrNeither ==
    [][cli'.name = "addfeed" =>
          \/ /\ cli'.err = ""
             /\ feedRows' = Append(feedRows, [Url |-> cli'.args[2],
                                              UserID |-> cfgFile.CurrentUserName])
             /\ feedFollows' = feedFollows \cup
                   { [UserID |-> cfgFile.CurrentUserName, FeedID |-> Len(feedRows')] }
          \/ /\ cli'.err # ""
             /\ feedRows' = feedRows
             /\ feedFollows' = feedFollows]_vars

\* how far a run of scrapeFeed has come
PcRank(pc) ==
    CASE pc = "mark" -> 0
      [] pc = "fetch" -> 1
      [] pc \in {"store", "blocked"} -> 2
      [] pc = "done" -> 3

\* C22: a run of scrapeFeed only moves forward, from the update of the
\* timestamp to the fetch to the inserts, so it makes each of the first two
\* once; the feeds table changes only in the step in which a worker makes
\* its update; a worker whose fetch failed has ended, and no post of its
\* feed is added while it is there; workers come into being only when
\* scrapeFeeds dispatches them for the feeds it has just selected
C22_OneAttempt ==
    [][/\ \A k \in DOMAIN workers \cap DOMAIN workers' :
              /\ PcRank(workers'[k].pc) >= PcRank(workers[k].pc)
              /\ workers'[k].feed = workers[k].feed
              /\ workers[k].exit = "fetcherr" =>
                    /\ workers'[k] = workers[k]
                    /\ \A r \in BagToSet(posts') :
                          r.FeedID = workers[k].feed =>
                              CopiesIn(r, posts') = CopiesIn(r, posts)
       /\ feeds' # feeds =>
              \E k \in DOMAIN workers :
                  /\ workers[k].pc = "mark"
                  /\ workers'[k].pc = "fetch"
                  /\ \A g \in DOMAIN feeds :
                        g # workers[k].feed => feeds'[g] = feeds[g]
       /\ Len(workers') > Len(workers) =>
              /\ pcAgg = "scrape"
              /\ workers = <<>>
              /\ Len(workers') = Len(selected')
              /\ \A k \in DOMAIN workers' :
                    /\ workers'[k].pc = "mark"
                    /\ workers'[k].feed = selected'[k]]_vars

\* the fetch of a feed has failed in a tick after the one in which another
\* worker stored a post: the feed keeps the timestamp of this run
C22_Witness ==
    \E k \in DOMAIN workers :
        /\ workers[k].exit = "fetcherr"
        /\ workers[k].markedAt # NULL
        /\ feeds[workers[k].feed] = workers[k].markedAt
        /\ posts # EmptyBag
        /\ now > 0

\* the worker in slot k has taken the step
Acted(k) == k \in DOMAIN workers /\ k \in DOMAIN workers' /\ workers'[k] # workers[k]

\* C23: a call of the Selector, failed or not, leaves the feeds and posts
\* tables as they are; the step of a worker for feed f leaves the timestamp
\* of every other feed as it is, dispatched in the tick or not, and adds no
\* post with another parent than f; nothing but a worker's step changes
\* either table
C23_WorkerFrame ==
    [][/\ pcAgg = "scrape" => feeds' = feeds /\ posts' = posts
       /\ \A k \in DOMAIN workers :
             Acted(k) =>
                /\ \A g \in DOMAIN feeds :
                      g # workers[k].feed => feeds'[g] = feeds[g]
                /\ \A r \in BagToSet(posts') :
                      CopiesIn(r, posts') > CopiesIn(r, posts) =>
                          r.FeedID = workers[k].feed
       /\ DOMAIN feeds' = DOMAIN feeds
       /\ (feeds' # feeds \/ posts' # posts) =>
             \E k \in DOMAIN workers : Acted(k)]_vars

\* the limit left a feed out of the tick: the worker of the selected feed
\* has set its timestamp and stored a post, the other feed is still never
\* fetched
C23_Witness ==
    /\ pcAgg = "wait"
    /\ \E k \in DOMAIN workers :
          /\ feeds[workers[k].feed] # NULL
          /\ \E r \in BagToSet(posts) : r.FeedID = workers[k].feed
    /\ \E g \in DOMAIN feeds :
          /\ \A k \in DOMAIN selected : selected[k] # g
          /\ feeds[g] = NULL

\* C24: no step removes or changes a stored post; the insert of an item
\* whose url is stored, by the worker of any feed, leaves the posts table as
\* it is
C24_PostsOnlyGrow ==
    [][/\ \A r \in BagToSet(posts) : CopiesIn(r, posts') >= CopiesIn(r, posts)
       /\ \A k \in DOMAIN workers :
             (/\ Acted(k)
              /\ workers[k].pc = "store"
              /\ ~posts_url_key(posts, Head(workers[k].items).Link)) =>
                 posts' = posts]_vars

\* a worker has visited an item whose url another feed's worker had stored:
\* the post still has the other feed as its parent
C24_Witness ==
    \E k \in DOMAIN workers : \E r \in BagToSet(posts) :
        /\ workers[k].exit = "stored"
        /\ r.FeedID # workers[k].feed
        /\ \A q \in BagToSet(posts) : q.FeedID # workers[k].feed
        /\ posts = SetToBag({r})

\* C25: the published_at stored with a post is what ParsePubDate gives for
\* the item's pubDate string: absent when that is the zero time (the string
\* is empty or in none of the layouts), the parsed instant otherwise; the
\* description is stored as absent exactly when it is empty
C25_StoredPubDate ==
    \A r \in BagToSet(posts) :
        /\ r.Description.Valid = (rssItem.Description # <<>>)
        /\ \E local \in Locals :
              LET t == ParsePubDate(rssItem, local, formats).t
              IN  /\ r.PublishedAt.Valid = ~t.zero
                  /\ r.PublishedAt.Valid => r.PublishedAt.Time = t

\* C26: when the response body is malformed XML (cut short, a wrong end
\* tag, junk inside or after the document) or XML of another shape than
\* channel > item (an Atom, RSS 1.0 or HTML document), the fetch returns an
\* error and the worker adds no post
C26_ParseError ==
    \A k \in DOMAIN workers :
        (/\ hist.body.kind # "rss"
         /\ workers[k].pc \notin {"mark", "fetch"}
         /\ workers[k].exit # "markerr") =>
            /\ workers[k].exit = "fetcherr"
            /\ posts = hist.posts0

\* the tick before this one ended with nothing selected although feeds
\* exist and the limit is positive: its Selector call failed
SelectorFailed ==
    /\ hist.on
    /\ phase = 1
    /\ hist.sel = {}
    /\ Len(feeds) > 0
    /\ ToInt32(concurrency) > 0

\* C27: a scrapeFeeds call that ends without dispatching although feeds
\* exist (its Selector call failed) leaves no worker, changes neither the
\* feeds nor the posts table nor the ticker, and takes the loop to its wait
\* for the next firing; the tick after it finds no worker left and selects
\* and dispatches as any tick does
C27_SelectorFailure ==
    /\ [][(/\ pcAgg = "scrape"
           /\ Len(feeds) > 0
           /\ ToInt32(concurrency) > 0
           /\ pcAgg' \notin {"scrape", "wait"}) =>
             /\ pcAgg' = "recv"
             /\ workers' = <<>>
             /\ wg' = 0
             /\ feeds' = feeds
             /\ posts' = posts
             /\ UNCHANGED <<tickerC, nextTick, timeBetweenRequests, concurrency>>]_vars
    /\ [](SelectorFailed =>
             /\ pcAgg = "scrape" =>
                   /\ workers = <<>>
                   /\ wg = 0
                   /\ \E sel \in GetNextFeedsToFetch(feeds, ToInt32(concurrency)) :
                         Len(sel) = Min(Len(feeds), ToInt32(concurrency))
             /\ pcAgg = "wait" =>
                   /\ Len(workers) = Min(Len(feeds), ToInt32(concurrency))
                   /\ \A k \in DOMAIN workers : workers[k].feed = selected[k])

\* the tick after a failed Selector call has dispatched a worker, which has
\* set the timestamp of its feed
C27_Witness ==
    /\ SelectorFailed
    /\ pcAgg = "wait"
    /\ \E k \in DOMAIN workers :
          /\ workers[k].markedAt # NULL
          /\ feeds[workers[k].feed] = workers[k].markedAt

\* the concurrency arguments that are positive integers, with their values
PositiveIntegers ==
    [arg \in { <<"1">>, <<"2">>,
               <<"4", "2", "9", "4", "9", "6", "7", "2", "9", "7">> } |->
        CASE arg = <<"1">> -> [neg |-> FALSE, mag |-> <<1, 0, 0, 0>>]
          [] arg = <<"2">> -> [neg |-> FALSE, mag |-> <<2, 0, 0, 0>>]
          [] OTHER -> [neg |-> FALSE, mag |-> <<1, 0, 1, 0>>]]

\* the interval arguments time.ParseDuration accepts
Durations == { <<"1", "s">>, <<"0", "s">>, <<"-", "5", "s">> }

\* no Selector call, fetch or timer has happened
NothingStarted ==
    /\ workers = <<>>
    /\ selected = <<>>
    /\ wg = 0
    /\ joinedAt = NULL
    /\ nextTick = NULL
    /\ posts = EmptyBag
    /\ \A f \in DOMAIN feeds : feeds[f] = NULL

\* C28: once handlerAgg has looked at its arguments: with no interval, an
\* interval that does not parse, or a concurrency argument that is not a
\* positive integer it has returned and nothing has been started; a running
\* loop has C = 5 when the concurrency argument was left out and the value
\* of the argument otherwise, so C >= 1 in every tick
C28_ValidConfig ==
    pcAgg # "start" =>
        LET args == hist.args
        IN  /\ (\/ Len(args) = 0
                \/ args[1] \notin Durations
                \/ Len(args) > 1 /\ args[2] \notin DOMAIN PositiveIntegers) =>
                   pcAgg = "returned" /\ NothingStarted
            /\ Running =>
                   /\ Len(args) >= 1
                   /\ args[1] \in Durations
                   /\ Len(args) = 1 => concurrency = [neg |-> FALSE, mag |-> <<5, 0, 0, 0>>]
                   /\ Len(args) > 1 =>
                         /\ args[2] \in DOMAIN PositiveIntegers
                         /\ concurrency = PositiveIntegers[args[2]]
                   /\ ~concurrency.neg
                   /\ \E i \in 1..4 : concurrency.mag[i] > 0

\* a loop started without a concurrency argument is in its second tick
C28_Witness ==
    /\ Len(hist.args) = 1
    /\ pcAgg = "wait"
    /\ phase = 1
    /\ concurrency = [neg |-> FALSE, mag |-> <<5, 0, 0, 0>>]

\* C29: in every tick the limit passed to the Selector, int32(concurrency),
\* is the configured concurrency
C29_LimitIsConcurrency ==
    pcAgg \in {"scrape", "wait"} =>
        concurrency = [neg |-> ToInt32(concurrency) < 0,
                       mag |-> <<(IF ToInt32(concurrency) < 0
                                  THEN 0 - ToInt32(concurrency)
                                  ELSE ToInt32(concurrency)) % Base,
                                 (IF ToInt32(concurrency) < 0
                                  THEN 0 - ToInt32(concurrency)
                                  ELSE ToInt32(concurrency)) \div Base, 0, 0>>]

\* C30: once handlerAgg has looked at its arguments, with an interval of
\* zero or less it has returned an error: no ticker has been created, no
\* tick has run and the process has not panicked
C30_IntervalRejected ==
    (/\ pcAgg # "start"
     /\ Len(hist.args) >= 1
     /\ hist.args[1] \in { <<"0", "s">>, <<"-", "5", "s">> }) =>
        pcAgg = "returned" /\ NothingStarted

\* the least number of calls that can dispatch n feeds, c at a time
CeilDiv(n, c) == (n + c - 1) \div c

\* N / C rounded up, for a small natural n and a positive Go int c
TicksPerRotation(n, c) ==
    IF LeqInt(n, c) THEN (IF n = 0 THEN 0 ELSE 1) ELSE CeilDiv(n, c.mag[1])

\* the feeds dispatched by the latest w calls on record
DispatchedIn(log, w) ==
    UNION { log[i] : i \in (Len(log) - w + 1)..Len(log) }

\* C31: with the feeds table fixed and MarkFeedFetched succeeding for every
\* dispatched feed, any N / C (rounded up) consecutive ticks have dispatched
\* each of the N feeds at least once, C being the configured concurrency
C31_StarvationFree ==
    (hist.on /\ Running) =>
        LET w == TicksPerRotation(Len(feeds), concurrency)
        IN  Len(hist.ticks) >= w =>
               DOMAIN feeds \subseteq DispatchedIn(hist.ticks, w)

\* the rotation of the Selector by itself: when the limit the Selector is
\* given is positive, the latest N / limit (rounded up) ticks whose Selector
\* calls all succeeded have dispatched every feed
RotationWindow ==
    (hist.on /\ Running /\ ToInt32(concurrency) > 0) =>
        LET w == CeilDiv(Len(feeds), ToInt32(concurrency))
        IN  (/\ Len(hist.ticks) >= w
             /\ \A i \in (Len(hist.ticks) - w + 1)..Len(hist.ticks) :
                   hist.ticks[i] # {}) =>
               DOMAIN feeds \subseteq DispatchedIn(hist.ticks, w)

\* two ticks in a row with one feed each have covered a table of two feeds
RotationWindow_Witness ==
    /\ hist.on
    /\ Len(feeds) = 2
    /\ ToInt32(concurrency) = 1
    /\ Len(hist.ticks) = 2
    /\ hist.ticks[1] # {}
    /\ hist.ticks[2] # {}

\* the rows of the bookmarks table that the user has for the post
BookmarksOf(userID, postID) ==
    CopiesIn([UserID |-> userID, PostID |-> postID], bookmarks)

\* C33: whatever bookmark and unbookmark commands ran and however they
\* interleaved, no user has two bookmarks for one post
C33_OneBookmarkPerPost ==
    \A r \in BagToSet(bookmarks) : CopiesIn(r, bookmarks) <= 1

\* C33 where the migrations declare (user_id, post_id) unique: the second
\* of two concurrent inserts fails
OneBookmarkWithKey ==
    bookmarksKey # "none" => C33_OneBookmarkPerPost

\* C33 as long as no two bookmark commands are between their query and
\* their insert at the same time
OneBookmarkInSequence ==
    [](BagCardinality(procs) <= 1) => []C33_OneBookmarkPerPost

\* C33, the single commands: a process reaches its insert only from a table
\* without the row, and an unbookmark that returns no error leaves none of
\* the user's rows for the post
BookmarkSteps ==
    [][/\ (procs' # procs /\ BagCardinality(procs') > BagCardinality(procs)) =>
             \A p \in BagToSet(procs') : CopiesIn(p, procs') > CopiesIn(p, procs) =>
                BookmarksOf(p.UserID, p.PostID) = 0
       /\ (cli'.name = "unbookmark" /\ cli'.err = "" /\ cli' # cli) =>
             CopiesIn([UserID |-> cfgFile.CurrentUserName,
                       PostID |-> cli'.args[1]], bookmarks') = 0
      ]_vars

\* two processes passed IsPostBookmarked for the same user and post before
\* either inserted, and both inserts succeeded
TwoBookmarks ==
    \E r \in BagToSet(bookmarks) : CopiesIn(r, bookmarks) = 2

\* the second of two concurrent inserts was refused by the key
SecondInsertRefused ==
    /\ bookmarksKey # "none"
    /\ cli = [name |-> "bookmark", args |-> <<1>>, err |-> "couldn't create bookmark"]
    /\ BookmarksOf(cfgFile.CurrentUserName, 1) = 1
    /\ procs = EmptyBag

\* the modelled commands that main registers through middlewareLoggedIn
Protected == { "addfeed", "unbookmark" }

\* C32: a command behind middlewareLoggedIn runs its handler only when the
\* user the config file names is stored at the time of the call; otherwise
\* it returns "couldn't get user" and changes no table.  A reset that
\* succeeds leaves no user, so every such command fails until a register.
C32_LoggedInOnly ==
    [][/\ cli'.name \in Protected =>
             IF BagIn(cfgFile.CurrentUserName, users)
             THEN TRUE
             ELSE /\ cli'.err = "couldn't get user"
                  /\ UNCHANGED <<users, cfgFile, feedRows, feedFollows, feeds,
                                 posts, bookmarks>>
       /\ (cli'.name = "reset" /\ cli'.err = "") => users' = EmptyBag
       /\ (users = EmptyBag /\ cli'.err = "" /\ cli' # cli) =>
             cli'.name \in { "register", "reset" }
      ]_vars

\* a user added a feed, the database was reset, and the next addfeed was
\* turned away at the wrapper
C32_Witness ==
    /\ users = EmptyBag
    /\ feedRows # <<>>
    /\ cfgFile.valid
    /\ cfgFile.CurrentUserName # ""
    /\ cli = [name |-> "addfeed", args |-> <<"blog", AllFeedUrls[1]>>,
              err |-> "couldn't get user"]

\* the line is the decimal numeral of n, sign and surrounding spaces aside
Numeral(line, n) ==
    LET v == Atoi(TrimSpace(line))
    IN  ~v.err /\ v.val = SmallInt(n)

InLoop_Tui == tui.pc \in { "read", "query", "pause" }

\* C34: whatever refreshes, searches and bookmark views came before, failed
\* ones included, a line read by the tui loop opens a post only when it is
\* read at the command prompt and is the numeral of an n from 1 to the
\* number of posts on the screen, and what is opened is the n-th post on the
\* screen; such a numeral read at the command prompt does open that post;
\* the loop is left only by "q" or a read error at that prompt
C34_TuiOpens ==
    [][/\ tui.pc # "read" => tui'.opened = tui.opened
       /\ (tui.pc = "read" /\ tui'.opened # NULL) =>
             \E n \in 1..Len(tui.shown) :
                /\ Numeral(tui'.input, n)
                /\ tui'.opened = tui.shown[n].Url
       /\ (tui.pc = "read" /\ tui'.pc = "pause" /\ ~tui'.eof) =>
             \A n \in 1..Len(tui.shown) :
                Numeral(tui'.input, n) => tui'.opened = tui.shown[n].Url
       /\ (InLoop_Tui /\ tui'.pc = "returned") =>
             /\ tui.pc = "read"
             /\ tui'.eof \/ TrimSpace(tui'.input) = <<"q">>
      ]_vars

\* the bookmark view put the post of a feed the user does not follow on the
\* screen, and its number opened it
C34_Witness ==
    /\ tui.pc = "pause"
    /\ tui.opened = StoreUrls
    /\ \E n \in 1..Len(tui.shown) :
          /\ Numeral(tui.input, n)
          /\ tui.shown[n] = [Url |-> StoreUrls, FeedID |-> 2]

\* a refresh failed, the screen lists no post, and "1" opened nothing
NothingToOpen ==
    /\ tui.pc = "pause"
    /\ tui.shown = <<>>
    /\ tui.input = <<"1">>
    /\ tui.opened = NULL

\* C10 as stated: every tick completes, scrapeFeeds' wait always leads back
\* to the loop waiting for the ticker
C10_TickCompletes == (pcAgg = "wait") ~> (pcAgg = "recv")

====
